---- MODULE Spec2Model ----
(***************************************************************************)
(* Verification model of the LaneRunner leaderboard engine.                *)
(*                                                                         *)
(*   - src/api/leaderboard.js: the KV-cached, incrementally updated        *)
(*     two-week leaderboard handler (Spec, SpecSeq);                       *)
(*   - src/ETHERS_LOGGER_SETUP.md (getLogsChunked) and src/unnamed/part_002*)
(*     (getLogsSafe): the concurrent bisecting log scanners (SpecScan).    *)
(*                                                                         *)
(* Block numbers, week keys and the scanner's step sizes are scaled down:  *)
(* one week is one unit of time, the chain has a handful of blocks.        *)
(***************************************************************************)
EXTENDS Integers, Sequences, FiniteSets, TLC

\* ------------------------------------------------------------------ bounds
\* Highest block the chain reaches while invocations overlap (Spec).
MaxBlock == 2
\* Highest block the chain reaches in a sequential behaviour (SpecSeq).
MaxBlockSeq == 3
\* Last wall-clock week the clock reaches (weeks are numbered from FirstWeek).
MaxWeek == 3
\* Number of handler invocations in one sequential behaviour (SpecSeq).
MaxCalls == 3
\* How far behind the chain head an endpoint's eth_blockNumber may be.
MaxLag == 1
\* Highest block a scanner is asked for (SpecScan).
MaxScanTo == 4
\* Highest configured LOGS_CONCURRENCY (SpecScan).
MaxWorkers == 2
\* Records folded in one run of the aggregation (SpecFold).
MaxFold == 4
\* Largest keep count handed to pruneToTop in a ranking (SpecFold).
MaxKeep == 3
\* Records of one computeWeeklySeason scan whose order is permuted (SpecFold).
MaxSeasonLogs == 3
\* Largest endpoint pool handed to makeRpcRotator (SpecRot).
MaxPool == 3
\* withRpcRotation calls made on one rotator (SpecRot).
MaxRotCalls == 3
\* Longest log data string, in hex digits (SpecDecode).
MaxHexLen == 10
\* Requests to the memCache handler (SpecMem).
MaxReqs == 4
\* The weeks the memCache handler is asked for.
MaxMemWeeks == 2

\* --------------------------------------------------------------- constants
\* leaderboard.js: 7 * 24 * 60 * 60 * 1000 ms, scaled to one unit.
WEEK_MS == 1
\* leaderboard.js backfillTwoWeeks: const WINDOW = 650000n, scaled.
WINDOW == 2
\* leaderboard.js fetchLogsRange: stepInitial = 8000n, scaled.
STEP_INITIAL == 2
\* leaderboard.js fetchLogsRange: hardMinStep = 900n, scaled.
HARD_MIN_STEP == 1
\* withRpcRotation's default number of tries
tries == 6
\* The hex digits of one ABI word: 64 (32 bytes), scaled to one byte.
WORD_HEX == 2
\* leaderboard.js: MAX_TOP = 50, scaled.
MAX_TOP == 2
\* leaderboard.js: PRUNE_KEEP = 250, scaled.
PRUNE_KEEP == 2
\* getLogsChunked / getLogsSafe: MAX_BLOCK_SPAN = 9900, scaled.
MAX_BLOCK_SPAN == 2
\* The wall clock starts in this week (so that the previous week's key is
\* a positive number, as every real week key is).
FirstWeek == 2

Handlers == {"h1", "h2"}

\* ------------------------------------------------------------- optionals
\* JavaScript null / undefined / a missing key.
None == <<>>
Some(x) == <<x>>
IsSome(o) == Len(o) = 1
Val(o) == o[1]

Min(a, b) == IF a < b THEN a ELSE b
Max(a, b) == IF a > b THEN a ELSE b

\* ------------------------------------------------------------- the ledger
\* The log records of block b, already filtered by topic0 / topic2.  dec is
\* what decodePointsAndWeek(extractBytesParamFromLogData(data)) yields:
\* None for a malformed payload.
LogsAt(b) ==
  IF b = 0 THEN <<>>
  ELSE CASE b % 4 = 1 ->
              << [blockNumber |-> b, user |-> "a1",
                  dec |-> Some([points |-> 2, week |-> 2])] >>
         [] b % 4 = 2 ->
              << [blockNumber |-> b, user |-> "a2",
                  dec |-> Some([points |-> 1, week |-> 2])],
                 [blockNumber |-> b, user |-> "a1",
                  dec |-> Some([points |-> 1, week |-> 1])] >>
         [] b % 4 = 3 ->
              << [blockNumber |-> b, user |-> "a3",
                  dec |-> Some([points |-> 3, week |-> 2])] >>
         [] OTHER ->
              << [blockNumber |-> b, user |-> "a2",
                  dec |-> Some([points |-> 2, week |-> 3])],
                 [blockNumber |-> b, user |-> "a3", dec |-> None] >>

\* eth_getLogs for [from, to]: the records of those blocks, in block order.
RECURSIVE GetLogs(_, _)
GetLogs(from, to) ==
  IF from > to THEN <<>> ELSE LogsAt(from) \o GetLogs(from + 1, to)

\* ------------------------------------------------- Map<address, bigint>
\* A JavaScript Map is a sequence of entries in insertion order.
MapHas(m, a) == \E i \in 1..Len(m) : m[i].address = a

MapGet(m, a) ==
  IF MapHas(m, a)
  THEN m[CHOOSE i \in 1..Len(m) : m[i].address = a].points
  ELSE 0

\* Map.prototype.set: an existing key keeps its position.
MapSet(m, a, v) ==
  IF MapHas(m, a)
  THEN [i \in 1..Len(m) |->
          IF m[i].address = a THEN [address |-> a, points |-> v] ELSE m[i]]
  ELSE Append(m, [address |-> a, points |-> v])

\* Insert e behind every entry with at least as many points (stable).
RECURSIVE InsertDesc(_, _)
InsertDesc(sorted, e) ==
  IF sorted = <<>> THEN <<e>>
  ELSE IF Head(sorted).points >= e.points
       THEN <<Head(sorted)>> \o InsertDesc(Tail(sorted), e)
       ELSE <<e>> \o sorted

\* Array.prototype.sort with (a, b) => b[1] > a[1] ? 1 : b[1] < a[1] ? -1 : 0
RECURSIVE SortDesc(_)
SortDesc(m) ==
  IF m = <<>> THEN <<>>
  ELSE InsertDesc(SortDesc(SubSeq(m, 1, Len(m) - 1)), m[Len(m)])

\* bigint.toString() and BigInt(string)
ToDec(n) == [dec |-> n]
FromDec(s) == s.dec

\* Entries of equal points come out in reverse insertion order.
sortMapToArrayTiesReversed(m) ==
  LET s == SortDesc([i \in 1..Len(m) |-> m[Len(m) + 1 - i]])
  IN  [i \in 1..Len(s) |-> [address |-> s[i].address, points |-> ToDec(s[i].points)]]

sortMapToArray(m) ==
  LET s == SortDesc(m)
  IN  [i \in 1..Len(s) |-> [address |-> s[i].address, points |-> ToDec(s[i].points)]]

\* The first keep entries in insertion order, unsorted.
pruneToTopUnsorted(m, keep) == SubSeq(m, 1, Min(keep, Len(m)))

pruneToTop(m, keep) ==
  LET s == SortDesc(m) IN SubSeq(s, 1, Min(keep, Len(s)))

\* ------------------------------------------------------ aggregation state
emptyWeekState(weekMs) == [weekMs |-> weekMs, map |-> <<>>]

HasWeek(weeks, weekMs) == \E i \in 1..Len(weeks) : weeks[i].weekMs = weekMs

\* state.weeks.find((x) => x.weekMs === weekMs)?.map || new Map()
FindWeekMap(weeks, weekMs) ==
  IF HasWeek(weeks, weekMs)
  THEN weeks[CHOOSE i \in 1..Len(weeks) :
               /\ weeks[i].weekMs = weekMs
               /\ \A j \in 1..(i - 1) : weeks[j].weekMs # weekMs].map
  ELSE <<>>

\* The record's points replace the stored total.
AddPointsOverwrites(weeks, wk, user, points) ==
  LET ws == IF HasWeek(weeks, wk) THEN weeks ELSE Append(weeks, emptyWeekState(wk))
      k  == CHOOSE i \in 1..Len(ws) :
              /\ ws[i].weekMs = wk
              /\ \A j \in 1..(i - 1) : ws[j].weekMs # wk
  IN  [ws EXCEPT ![k].map = MapSet(@, user, points)]

\* getOrMakeWeekMap(state, wk) followed by m.set(user, (m.get(user)||0n)+points)
AddPoints(weeks, wk, user, points) ==
  LET ws == IF HasWeek(weeks, wk) THEN weeks ELSE Append(weeks, emptyWeekState(wk))
      k  == CHOOSE i \in 1..Len(ws) :
              /\ ws[i].weekMs = wk
              /\ \A j \in 1..(i - 1) : ws[j].weekMs # wk
  IN  [ws EXCEPT ![k].map = MapSet(@, user, MapGet(@, user) + points)]

\* Every decoded record is folded, whatever its week.
FoldLogAnyWeek(weeks, l, curWeekMs, prevWeekMs) ==
  IF ~IsSome(l.dec) THEN weeks
  ELSE AddPoints(weeks, Val(l.dec).week, l.user, Val(l.dec).points)

\* The body of the "for (const l of logs)" loops of backfillTwoWeeks and
\* incrementalUpdate, for one record.
FoldLog(weeks, l, curWeekMs, prevWeekMs) ==
  IF ~IsSome(l.dec) THEN weeks
  ELSE LET wk == Val(l.dec).week
       IN  IF wk # curWeekMs /\ wk # prevWeekMs THEN weeks
           ELSE AddPoints(weeks, wk, l.user, Val(l.dec).points)

RECURSIVE FoldLogs(_, _, _, _)
FoldLogs(weeks, logs, curWeekMs, prevWeekMs) ==
  IF logs = <<>> THEN weeks
  ELSE FoldLogs(FoldLog(weeks, Head(logs), curWeekMs, prevWeekMs),
                Tail(logs), curWeekMs, prevWeekMs)

\* A value is falsy in JavaScript: null, 0 / 0n.
Truthy(o) == IsSome(o) /\ Val(o) # 0

serializeState(state) ==
  [ currentWeekMs      |-> state.currentWeekMs,
    lastWeekMs         |-> state.lastWeekMs,
    lastProcessedBlock |-> IF Truthy(state.lastProcessedBlock)
                           THEN Some(ToDec(Val(state.lastProcessedBlock)))
                           ELSE None,
    weeks |-> [i \in 1..Len(state.weeks) |->
                 [ weekMs  |-> state.weeks[i].weekMs,
                   entries |-> [j \in 1..Len(state.weeks[i].map) |->
                                  [ address |-> state.weeks[i].map[j].address,
                                    points  |-> ToDec(state.weeks[i].map[j].points) ]] ]] ]

\* new Map built by m.set(addr, BigInt(pts)) over the entries
RECURSIVE EntriesToMap(_)
EntriesToMap(entries) ==
  IF entries = <<>> THEN <<>>
  ELSE LET e == entries[Len(entries)]
       IN  MapSet(EntriesToMap(SubSeq(entries, 1, Len(entries) - 1)),
                  e.address, FromDec(e.points))

\* Only weeks[0] and weeks[1] are read; a week with a falsy weekMs is skipped.
RECURSIVE DeserWeeks(_)
DeserWeeks(ws) ==
  IF ws = <<>> THEN <<>>
  ELSE LET w == Head(ws)
       IN  (IF w.weekMs = 0 THEN <<>>
            ELSE << [weekMs |-> w.weekMs, map |-> EntriesToMap(w.entries)] >>)
           \o DeserWeeks(Tail(ws))

\* Only weeks[0] is read back.
deserializeStateOneWeek(raw) ==
  IF ~IsSome(raw) THEN None
  ELSE LET s == Val(raw)
       IN  Some([ currentWeekMs      |-> s.currentWeekMs,
                  lastWeekMs         |-> s.lastWeekMs,
                  lastProcessedBlock |-> IF IsSome(s.lastProcessedBlock)
                                         THEN Some(FromDec(Val(s.lastProcessedBlock)))
                                         ELSE None,
                  weeks |-> DeserWeeks(SubSeq(s.weeks, 1, Min(1, Len(s.weeks)))) ])

deserializeState(raw) ==
  IF ~IsSome(raw) THEN None
  ELSE LET s == Val(raw)
       IN  Some([ currentWeekMs      |-> s.currentWeekMs,
                  lastWeekMs         |-> s.lastWeekMs,
                  lastProcessedBlock |-> IF IsSome(s.lastProcessedBlock)
                                         THEN Some(FromDec(Val(s.lastProcessedBlock)))
                                         ELSE None,
                  weeks |-> DeserWeeks(SubSeq(s.weeks, 1, Min(2, Len(s.weeks)))) ])

formatResponsePayload(state) ==
  LET curMap  == FindWeekMap(state.weeks, state.currentWeekMs)
      prevMap == FindWeekMap(state.weeks, state.lastWeekMs)
      weekly   == sortMapToArray(curMap)
      lastWeek == sortMapToArray(prevMap)
  IN  [ ok            |-> TRUE,
        weekStart     |-> state.currentWeekMs,
        prevWeekStart |-> state.lastWeekMs,
        weekly        |-> SubSeq(weekly, 1, Min(MAX_TOP, Len(weekly))),
        lastWeek      |-> SubSeq(lastWeek, 1, Min(MAX_TOP, Len(lastWeek))),
        meta |-> [ lastProcessedBlock |->
                     IF Truthy(state.lastProcessedBlock)
                     THEN Some(ToDec(Val(state.lastProcessedBlock)))
                     ELSE None,
                   busy |-> FALSE ] ]

\* { ...cached, meta: { ...cached.meta, busy: true } }
WithBusy(cached) == [cached EXCEPT !.meta.busy = TRUE]

\* The failure body { ok: false, error, hint }
ErrorPayload == [ok |-> FALSE]


\* =========================================================================
\* The handler of src/api/leaderboard.js
\* =========================================================================
VARIABLES
  storeConfigured, \* hasStoreConfigured(): a shared KV store (Upstash / Vercel KV)
  week,            \* weekStartUtcMs(Date.now()), in units of WEEK_MS
  head,            \* the chain's latest block
  kvState,         \* value under KV_STATE_KEY (MEM_STATE without a store)
  kvResp,          \* live value under KV_RESP_KEY (MEM_RESP within its TTL)
  kvLock,          \* KV_LOCK_KEY exists
  lockOwner,       \* history: the invocation whose set-if-absent created the key
  calls,           \* invocations started so far
  pc,              \* where each invocation is suspended
  refresh,         \* req.query.refresh === "1"
  gotLock,         \* the handler's gotLock
  curWk,           \* curWeekMs computed at the top of incrementalUpdate
  st,              \* deserializeState(rawState)
  mode,            \* "none" | "noop" | "warm" | "backfill"
  latest,          \* result of the last getLatestBlock()
  scanFrom,        \* fetchLogsRange: the fromBlock it was called with
  cursor,          \* fetchLogsRange: from, when the loop was left
  cut,             \* fetchLogsRange left its loop at the deadline check
  upd,             \* the state returned by incrementalUpdate
  resp,            \* history: what the invocation sent
  eff,             \* history: the side effects of the invocation so far
  warmDone         \* history: the block ranges warm scans requested this week,
                   \* and whether the state they produced was persisted

\* The scanners of ETHERS_LOGGER_SETUP.md and part_002 (SpecScan)
VARIABLES
  scanner,         \* "none" | "chunked" (getLogsChunked) | "safe" (getLogsSafe)
  reqFrom, reqTo,  \* the fromBlock, toBlock the scanner was called with
  logsConcurrency, \* LOGS_CONCURRENCY
  ranges,          \* getLogsChunked: ranges; getLogsSafe: queue
  idx,             \* getLogsChunked: idx
  wpc,             \* each worker: "off" | "fetch" (awaiting eth_getLogs) | "exit"
  wcur,            \* each worker: the range of its pending eth_getLogs call
  fetched,         \* the ranges whose eth_getLogs call succeeded, in order
  scanStatus       \* "idle" | "running" | "returned" | "threw"

\* The aggregation taken alone (SpecFold): the fold loop of an update, the
\* filter-and-prune that ends it, and the ranking of a period map.
VARIABLES
  foldBase,        \* state.weeks when the running update started
  foldLogs,        \* the records the running update has folded so far
  foldWeeks,       \* state.weeks
  rawWeeks,        \* history: the same records folded with no pruning at all
  folds,           \* records folded so far
  ranked,          \* the last ranking computed from a period map
  season           \* the last computeWeeklySeason aggregation

\* fetchLogsRange taken alone, one eth_getLogs attempt at a time (SpecFetch)
VARIABLES
  fetchStatus,     \* "idle" | "running" (an attempt is awaited) | "returned" | "threw"
  fetchFrom,       \* fetchLogsRange: from
  fetchTo,         \* fetchLogsRange: toBlock
  fetchStep,       \* fetchLogsRange: step
  fetchOut,        \* the ranges whose logs were pushed to logsOut
  rotTries,        \* fn invocations made by the running withRpcRotation call
  rotLastErr,      \* withRpcRotation: lastErr
  rotEnded,        \* history: how the last withRpcRotation call ended
  exhausted        \* history: a withRpcRotation call of this scan threw

\* The rotator of part_000 shared by the scan workers (SpecRot)
VARIABLES
  rrPool,          \* makeRpcRotator: list.length
  rrCursor,        \* makeRpcRotator: cursor
  rrUrl,           \* each worker: the index in list of the url its fn is awaiting
  rrPrev,          \* each worker: the index used by the failed attempt before
  rrAttempt,       \* each worker: attempt of its running withRpcRotation call
  rrCalls          \* withRpcRotation calls started so far

\* The log data decoders taken alone (SpecDecode)
VARIABLES
  data,            \* the hex digits of log.data behind its "0x"
  payload,         \* leaderboard.js: extractBytesParamFromLogData(data)
  decoded,         \* leaderboard.js: decodePointsAndWeek(extractBytesParamFromLogData(data))
  extracted        \* part_000 line 833: extractBytesParamFromLogData(data)

\* The memCache handler of ETHERS_LOGGER_SETUP.md (SpecMem)
VARIABLES
  memCache,        \* memCache = { key, at, data, inFlight }
  reqs,            \* each request: where it is, its weekStart, what it was sent
  prom,            \* each request: the computeWeeklySeason promise it created
  arrived          \* requests received so far

mvars   == <<memCache, reqs, prom, arrived>>
dvars   == <<data, payload, decoded, extracted>>
qvars   == <<rrPool, rrCursor, rrUrl, rrPrev, rrAttempt, rrCalls>>
rvars   == <<fetchStatus, fetchFrom, fetchTo, fetchStep, fetchOut, rotTries,
             rotLastErr, rotEnded, exhausted>>
fvars   == <<foldBase, foldLogs, foldWeeks, rawWeeks, folds, ranked, season>>
svars   == <<scanner, reqFrom, reqTo, logsConcurrency, ranges, idx, wpc, wcur, fetched, scanStatus>>
\* What no step of the handler changes.
conf    == <<storeConfigured, svars, fvars, rvars, qvars, dvars, mvars>>
env     == <<conf, week, head>>
kv      == <<kvState, kvResp, kvLock, lockOwner>>
scanv   == <<scanFrom, cursor, cut>>
locals  == <<refresh, gotLock, curWk, st, mode, latest, upd>>
hvars   == <<env, kv, calls, pc, locals, scanv, resp, eff, warmDone>>
\* The handler's own variables.
hown    == <<storeConfigured, week, head, kv, calls, pc, locals, scanv, resp, eff,
             warmDone>>
\* What no step of a scanner changes.
honly   == <<hown, fvars, rvars, qvars, dvars, mvars>>
\* What no step of the aggregation changes.
notfold == <<hown, svars, rvars, qvars, dvars, mvars>>
\* What no step of fetchLogsRange changes.
notfetch == <<hown, svars, fvars, qvars, dvars, mvars>>
\* What no step of the rotator changes.
notrot  == <<hown, svars, fvars, rvars, dvars, mvars>>
\* What no step of the decoders changes.
notdec  == <<hown, svars, fvars, rvars, qvars, mvars>>
\* What no step of the memCache handler changes.
notmem  == <<hown, svars, fvars, rvars, qvars, dvars>>

\* eth_blockNumber: by the time the call is answered the chain has grown to
\* newHead, and the endpoint that answers may lag behind it.
LatestChoices(newHead) == { b \in 0..newHead : b >= newHead - MaxLag }

\* The ledger has appended blocks up to newHead.
ChainGrows(newHead) ==
  /\ newHead >= head
  /\ head' = newHead

InitHandlers ==
  /\ week = FirstWeek
  /\ head = 1
  /\ kvLock = FALSE
  /\ lockOwner = None
  /\ calls = 0
  /\ pc = [h \in Handlers |-> "idle"]
  /\ refresh = [h \in Handlers |-> FALSE]
  /\ gotLock = [h \in Handlers |-> FALSE]
  /\ curWk = [h \in Handlers |-> 0]
  /\ st = [h \in Handlers |-> None]
  /\ mode = [h \in Handlers |-> "none"]
  /\ latest = [h \in Handlers |-> 0]
  /\ scanFrom = [h \in Handlers |-> 0]
  /\ cursor = [h \in Handlers |-> 0]
  /\ cut = [h \in Handlers |-> FALSE]
  /\ upd = [h \in Handlers |-> None]
  /\ resp = [h \in Handlers |-> None]
  /\ eff = [h \in Handlers |-> {}]
  /\ warmDone = {}

\* ----------------------------------------------------------- fetchLogsRange
\* fetchLogsRange(fromBlock, toBlock, stepInitial, hardMinStep, deadlineMs),
\* lines 312-358: the set of results the call can return.  In each turn of
\* the loop either
\*   - nowMs() > deadlineMs and the loop breaks (cut), or
\*   - eth_getLogs answers for [from, to] and from moves behind to, or
\*   - a range-limit or an unknown error halves the step (not below
\*     hardMinStep) and the same from is tried again.
\* A rate-limit error retries the same segment and changes nothing.
RECURSIVE FetchLoop(_, _, _, _, _)
FetchLoop(from, toBlock, stp, hardMinStep, logs) ==
  IF from > toBlock
  THEN { [logsOut |-> logs, from |-> from, cut |-> FALSE] }
  ELSE LET to     == Min(from + stp, toBlock)
           shrunk == Max(stp \div 2, hardMinStep)
       IN  { [logsOut |-> logs, from |-> from, cut |-> TRUE] }
           \cup FetchLoop(to + 1, toBlock, stp, hardMinStep, logs \o GetLogs(from, to))
           \cup (IF shrunk < stp
                 THEN FetchLoop(from, toBlock, shrunk, hardMinStep, logs)
                 ELSE {})

fetchLogsRange(fromBlock, toBlock) ==
  FetchLoop(fromBlock, toBlock, STEP_INITIAL, HARD_MIN_STEP, <<>>)

\* --------------------------------------------------------------- the store
\* getCachedResponse(): the snapshot, or null when absent or when
\* CACHE_TTL_SECONDS have passed since it was written (expired).
getCachedResponse(expired) == IF expired THEN None ELSE kvResp

\* No invocation has just answered.  The step that ends an invocation
\* (Return) touches nothing but that invocation's own locals, so it is taken
\* before any other step.
Quiet == \A g \in Handlers : pc[g] # "done"

\* The update's working variables go out of scope.
DropUpdateLocals(h) ==
  /\ curWk' = [curWk EXCEPT ![h] = 0]
  /\ st' = [st EXCEPT ![h] = None]
  /\ mode' = [mode EXCEPT ![h] = "none"]
  /\ latest' = [latest EXCEPT ![h] = 0]
  /\ upd' = [upd EXCEPT ![h] = None]
  /\ scanFrom' = [scanFrom EXCEPT ![h] = 0]
  /\ cursor' = [cursor EXCEPT ![h] = 0]
  /\ cut' = [cut EXCEPT ![h] = FALSE]

\* The scan's bookkeeping is not read after the update has returned.
DropScanLocals(h) ==
  /\ latest' = [latest EXCEPT ![h] = 0]
  /\ scanFrom' = [scanFrom EXCEPT ![h] = 0]
  /\ cursor' = [cursor EXCEPT ![h] = 0]

\* res.status(200).send(body): the invocation has answered.
Respond(h, kind, body) ==
  /\ resp' = [resp EXCEPT ![h] = Some([kind |-> kind, body |-> body])]
  /\ pc' = [pc EXCEPT ![h] = "done"]
  /\ DropUpdateLocals(h)

\* The fast path forgets to return: a cache hit goes on to the lock.
StartBodyNoReturn(h, r, expired, storeFails) ==
  /\ pc[h] = "idle"
  /\ Quiet
  /\ calls' = calls + 1
  /\ refresh' = [refresh EXCEPT ![h] = r]
  /\ ~storeFails
  /\ expired => (~r /\ IsSome(kvResp))
  /\ kvResp' = IF r THEN kvResp ELSE (IF expired THEN None ELSE kvResp)
  /\ pc' = [pc EXCEPT ![h] = "lock"]
  /\ UNCHANGED <<env, kvState, kvLock, lockOwner, gotLock, curWk, st, mode,
                 latest, upd, scanv, resp, eff, warmDone>>

\* handler, lines 549-564: a new request; the fast path on a cache hit.
\* expired: the snapshot's TTL had passed; storeFails: the store's get
\* rejects (only with a store configured).
StartBody(h, r, expired, storeFails) ==
  /\ pc[h] = "idle"
  /\ Quiet
  /\ calls' = calls + 1
  /\ refresh' = [refresh EXCEPT ![h] = r]
  /\ IF r
     THEN /\ ~expired /\ ~storeFails
          /\ pc' = [pc EXCEPT ![h] = "lock"]
          /\ UNCHANGED <<resp, kvResp>>
     ELSE IF storeFails
          THEN /\ storeConfigured /\ ~expired
               /\ pc' = [pc EXCEPT ![h] = "catch"]
               /\ UNCHANGED <<resp, kvResp>>
          ELSE /\ expired => IsSome(kvResp)
               /\ kvResp' = getCachedResponse(expired)
               /\ IF IsSome(getCachedResponse(expired))
                  THEN /\ resp' = [resp EXCEPT ![h] =
                                     Some([kind |-> "cached",
                                           body |-> Val(getCachedResponse(expired))])]
                       /\ pc' = [pc EXCEPT ![h] = "done"]
                  ELSE /\ pc' = [pc EXCEPT ![h] = "lock"]
                       /\ UNCHANGED resp
  /\ UNCHANGED <<env, kvState, kvLock, lockOwner, gotLock, curWk, st, mode,
                 latest, upd, scanv, eff, warmDone>>

\* Requests arrive at any time, also while another invocation runs: one per
\* handler slot.
Start(h, r, expired, storeFails) ==
  /\ calls < Cardinality(Handlers)
  /\ StartBody(h, r, expired, storeFails)

\* Requests arrive one after the other: a new one only when no invocation
\* is running.
StartSeq(h, r, expired, storeFails) ==
  /\ calls < MaxCalls
  /\ \A g \in Handlers : pc[g] = "idle"
  /\ StartBody(h, r, expired, storeFails)

\* The invocation is over: its locals are gone.
Return(h) ==
  /\ pc[h] = "done"
  /\ pc' = [pc EXCEPT ![h] = "idle"]
  /\ refresh' = [refresh EXCEPT ![h] = FALSE]
  /\ gotLock' = [gotLock EXCEPT ![h] = FALSE]
  /\ resp' = [resp EXCEPT ![h] = None]
  /\ eff' = [eff EXCEPT ![h] = {}]
  /\ UNCHANGED <<env, kv, calls, curWk, st, mode, latest, upd, scanv, warmDone>>

\* The busy branch tests "!gotLock" only: a forced refresh that found the
\* lock taken is sent to the busy path as well.
AcquireLockNoForce(h, outcome, expired) ==
  /\ pc[h] = "lock"
  /\ Quiet
  /\ expired => (storeConfigured /\ kvLock /\ outcome = "nx")
  /\ (outcome = "throws") => storeConfigured
  /\ LET held == kvLock /\ ~expired
         got  == IF ~storeConfigured THEN TRUE
                 ELSE IF outcome = "throws" THEN TRUE
                 ELSE ~held
         sets == storeConfigured /\ outcome = "nx" /\ ~held
     IN  /\ gotLock' = [gotLock EXCEPT ![h] = got]
         /\ kvLock' = IF sets THEN TRUE ELSE kvLock
         /\ lockOwner' = IF sets THEN Some(h) ELSE lockOwner
         /\ eff' = [eff EXCEPT ![h] = @ \cup {"lock"}]
         /\ pc' = [pc EXCEPT ![h] = IF ~got THEN "busy" ELSE "load"]
  /\ UNCHANGED <<env, kvState, kvResp, calls, refresh, curWk, st, mode, latest,
                 upd, scanv, resp, warmDone>>

\* storeAcquireLock(KV_LOCK_KEY, 30), lines 292-302 and 567-568.
\* outcome "nx": the store ran SET NX EX 30; "throws": store.set rejected.
\* expired: the key's 30 s TTL had passed before the call.
AcquireLock(h, outcome, expired) ==
  /\ pc[h] = "lock"
  /\ Quiet
  /\ expired => (storeConfigured /\ kvLock /\ outcome = "nx")
  /\ (outcome = "throws") => storeConfigured
  /\ LET held == kvLock /\ ~expired
         got  == IF ~storeConfigured THEN TRUE
                 ELSE IF outcome = "throws" THEN TRUE
                 ELSE ~held
         sets == storeConfigured /\ outcome = "nx" /\ ~held
     IN  /\ gotLock' = [gotLock EXCEPT ![h] = got]
         /\ kvLock' = IF sets THEN TRUE ELSE kvLock
         /\ lockOwner' = IF sets THEN Some(h) ELSE lockOwner
         /\ eff' = [eff EXCEPT ![h] = @ \cup {"lock"}]
         /\ pc' = [pc EXCEPT ![h] = IF ~got /\ ~refresh[h] THEN "busy" ELSE "load"]
  /\ UNCHANGED <<env, kvState, kvResp, calls, refresh, curWk, st, mode, latest,
                 upd, scanv, resp, warmDone>>

\* The busy path releases the lock it never held before it answers.
BusyCheckUnlocks(h, expired) ==
  /\ pc[h] = "busy"
  /\ Quiet
  /\ expired => IsSome(kvResp)
  /\ kvResp' = getCachedResponse(expired)
  /\ IF IsSome(getCachedResponse(expired))
     THEN /\ resp' = [resp EXCEPT ![h] =
                        Some([kind |-> "busy",
                              body |-> WithBusy(Val(getCachedResponse(expired)))])]
          /\ pc' = [pc EXCEPT ![h] = "done"]
          /\ kvLock' = FALSE
          /\ lockOwner' = None
          /\ eff' = [eff EXCEPT ![h] = @ \cup {"unlock"}]
     ELSE /\ pc' = [pc EXCEPT ![h] = "load"]
          /\ UNCHANGED <<resp, kvLock, lockOwner, eff>>
  /\ UNCHANGED <<env, kvState, calls, locals, scanv, warmDone>>

\* lines 568-576: no lock and no forced refresh: serve the snapshot if any.
BusyCheck(h, expired) ==
  /\ pc[h] = "busy"
  /\ Quiet
  /\ expired => IsSome(kvResp)
  /\ kvResp' = getCachedResponse(expired)
  /\ IF IsSome(getCachedResponse(expired))
     THEN /\ resp' = [resp EXCEPT ![h] =
                        Some([kind |-> "busy",
                              body |-> WithBusy(Val(getCachedResponse(expired)))])]
          /\ pc' = [pc EXCEPT ![h] = "done"]
     ELSE /\ pc' = [pc EXCEPT ![h] = "load"]
          /\ UNCHANGED resp
  /\ UNCHANGED <<env, kvState, kvLock, lockOwner, calls, locals, scanv, eff,
                 warmDone>>

\* Monday 00:00 UTC has passed: weekStartUtcMs(now) is newWeek.
ClockAdvances(newWeek) ==
  /\ newWeek \in week..MaxWeek
  /\ week' = newWeek
  /\ warmDone' = IF newWeek = week THEN warmDone ELSE {}

\* lines 578-579 and 487-489: load the state; incrementalUpdate reads the
\* clock, which is in week newWeek by then.
LoadState(h, newWeek) ==
  /\ pc[h] = "load"
  /\ Quiet
  /\ ClockAdvances(newWeek)
  /\ st' = [st EXCEPT ![h] = deserializeState(kvState)]
  /\ curWk' = [curWk EXCEPT ![h] = newWeek]
  /\ pc' = [pc EXCEPT ![h] = "update"]
  /\ UNCHANGED <<conf, head, kv, calls, refresh, gotLock, mode, latest,
                 upd, scanv, resp, eff>>

\* A store get / set rejects: control passes to the handler's catch block.
StoreThrows(h) ==
  /\ storeConfigured
  /\ Quiet
  /\ pc[h] \in {"busy", "load", "write_state", "write_resp"}
  /\ pc' = [pc EXCEPT ![h] = "catch"]
  /\ DropUpdateLocals(h)
  /\ UNCHANGED <<env, kv, calls, refresh, gotLock, resp, eff, warmDone>>

\* The previous week is taken two weeks back.
FreshStateFortnight(curWeekMs) ==
  [ currentWeekMs      |-> curWeekMs,
    lastWeekMs         |-> curWeekMs - 2 * WEEK_MS,
    lastProcessedBlock |-> None,
    weeks |-> << emptyWeekState(curWeekMs), emptyWeekState(curWeekMs - 2 * WEEK_MS) >> ]

\* backfillTwoWeeks lines 456-462: the fresh state.
FreshState(curWeekMs) ==
  [ currentWeekMs      |-> curWeekMs,
    lastWeekMs         |-> curWeekMs - WEEK_MS,
    lastProcessedBlock |-> None,
    weeks |-> << emptyWeekState(curWeekMs), emptyWeekState(curWeekMs - WEEK_MS) >> ]

PruneWeeks(weeks) ==
  [i \in 1..Len(weeks) |->
     [weekMs |-> weeks[i].weekMs, map |-> pruneToTop(weeks[i].map, PRUNE_KEEP)]]

\* Off by one: the update records the block before the last one it scanned.
AdvanceShort(state, lat) == [state EXCEPT !.lastProcessedBlock = Some(lat - 1)]

\* state.lastProcessedBlock = latest, lines 481 and 528.
Advance(state, lat) == [state EXCEPT !.lastProcessedBlock = Some(lat)]

\* backfillTwoWeeks(now, deadlineMs), lines 446-484, given the answer lat of
\* its getLatestBlock: the results it can return.
backfillTwoWeeks(curWeekMs, lat) ==
  LET fromBlock == IF lat > WINDOW THEN lat - WINDOW ELSE 0
      state     == FreshState(curWeekMs)
  IN  { [ state |-> Advance([state EXCEPT
                       !.weeks = PruneWeeks(FoldLogs(state.weeks, run.logsOut,
                                                     curWeekMs, curWeekMs - WEEK_MS))],
                     lat),
          mode |-> "backfill", from |-> fromBlock, run |-> run ]
        : run \in fetchLogsRange(fromBlock, lat) }

\* The rollover test is missing: a state of an earlier week is reused.
NeedsBackfillNoRollover(existing, curWeekMs) ==
  \/ ~IsSome(existing)
  \/ ~Truthy(Val(existing).lastProcessedBlock)

\* incrementalUpdate line 494
NeedsBackfill(existing, curWeekMs) ==
  \/ ~IsSome(existing)
  \/ ~Truthy(Val(existing).lastProcessedBlock)
  \/ Val(existing).currentWeekMs # curWeekMs

\* Off by one: the warm scan starts at the block already processed.
WarmFromInclusive(lastProcessedBlock) == lastProcessedBlock

\* The first block of the warm scan, line 502.
WarmFrom(lastProcessedBlock) == lastProcessedBlock + 1

\* The weeks kept and pruned at the end of a warm update, lines 524-526.
KeepTracked(weeks, curWeekMs, prevWeekMs) ==
  PruneWeeks(SelectSeq(weeks, LAMBDA w : w.weekMs = curWeekMs \/ w.weekMs = prevWeekMs))

\* The empty-range branch records the latest block it was told all the same.
incrementalUpdateNoopAdvances(existing, curWeekMs, lat) ==
  IF NeedsBackfill(existing, curWeekMs)
  THEN backfillTwoWeeks(curWeekMs, lat)
  ELSE LET state == [Val(existing) EXCEPT !.currentWeekMs = curWeekMs,
                                          !.lastWeekMs = curWeekMs - WEEK_MS]
           from  == WarmFrom(Val(state.lastProcessedBlock))
       IN  IF from > lat
           THEN { [ state |-> Advance(state, lat), mode |-> "noop", from |-> from,
                    run |-> [logsOut |-> <<>>, from |-> from, cut |-> FALSE] ] }
           ELSE { [ state |-> Advance([state EXCEPT
                                 !.weeks = KeepTracked(
                                             FoldLogs(state.weeks, run.logsOut,
                                                      curWeekMs, curWeekMs - WEEK_MS),
                                             curWeekMs, curWeekMs - WEEK_MS)],
                               lat),
                    mode |-> "warm", from |-> from, run |-> run ]
                  : run \in fetchLogsRange(from, lat) }

\* incrementalUpdate(existingState, deadlineMs), lines 486-531, given the
\* answer lat of getLatestBlock: the results it can return.
incrementalUpdate(existing, curWeekMs, lat) ==
  IF NeedsBackfill(existing, curWeekMs)
  THEN backfillTwoWeeks(curWeekMs, lat)
  ELSE LET state == [Val(existing) EXCEPT !.currentWeekMs = curWeekMs,
                                          !.lastWeekMs = curWeekMs - WEEK_MS]
           from  == WarmFrom(Val(state.lastProcessedBlock))
       IN  IF from > lat
           THEN { [ state |-> state, mode |-> "noop", from |-> from,
                    run |-> [logsOut |-> <<>>, from |-> from, cut |-> FALSE] ] }
           ELSE { [ state |-> Advance([state EXCEPT
                                 !.weeks = KeepTracked(
                                             FoldLogs(state.weeks, run.logsOut,
                                                      curWeekMs, curWeekMs - WEEK_MS),
                                             curWeekMs, curWeekMs - WEEK_MS)],
                               lat),
                    mode |-> "warm", from |-> from, run |-> run ]
                  : run \in fetchLogsRange(from, lat) }

\* lines 581-593: const updated = await incrementalUpdate(state, deadlineMs).
\* The RPC calls of the update read the ledger only, so the update is one
\* step.  Without a store, storeSetJson assigns MEM_STATE in the same turn.
Update(h, newHead, lat) ==
  /\ pc[h] = "update"
  /\ Quiet
  /\ ChainGrows(newHead)
  /\ lat \in LatestChoices(newHead)
  /\ \E r \in incrementalUpdate(st[h], curWk[h], lat) :
         /\ latest' = [latest EXCEPT ![h] = lat]
         /\ mode' = [mode EXCEPT ![h] = r.mode]
         /\ scanFrom' = [scanFrom EXCEPT ![h] = r.from]
         /\ cursor' = [cursor EXCEPT ![h] = r.run.from]
         /\ cut' = [cut EXCEPT ![h] = r.run.cut]
         /\ upd' = [upd EXCEPT ![h] = Some(r.state)]
         /\ st' = [st EXCEPT ![h] = None]
         /\ curWk' = [curWk EXCEPT ![h] = 0]
         /\ warmDone' = IF r.mode = "warm"
                          THEN warmDone \cup { [from |-> r.from, to |-> lat,
                                                 kept |-> ~storeConfigured] }
                          ELSE warmDone
         /\ IF storeConfigured
            THEN /\ pc' = [pc EXCEPT ![h] = "write_state"]
                 /\ eff' = [eff EXCEPT ![h] =
                              @ \cup {"rpc"} \cup (IF r.mode = "noop" THEN {} ELSE {"scan"})]
                 /\ UNCHANGED kvState
            ELSE /\ kvState' = Some(serializeState(r.state))
                 /\ eff' = [eff EXCEPT ![h] =
                              @ \cup {"rpc", "wstate"}
                                \cup (IF r.mode = "noop" THEN {} ELSE {"scan"})]
                 /\ pc' = [pc EXCEPT ![h] = "write_resp"]
  /\ UNCHANGED <<conf, week, kvResp, kvLock, lockOwner, calls, refresh,
                 gotLock, resp>>

\* The loaded object is the stored object: what the update did to it in
\* place before it failed shows under the state key.
UpdateThrowsAliased(h) ==
  /\ pc[h] = "update"
  /\ Quiet
  /\ \E r \in incrementalUpdate(st[h], curWk[h], head) :
        kvState' = Some(serializeState(r.state))
  /\ eff' = [eff EXCEPT ![h] = @ \cup {"rpc"}]
  /\ pc' = [pc EXCEPT ![h] = "catch"]
  /\ DropUpdateLocals(h)
  /\ UNCHANGED <<env, kvResp, kvLock, lockOwner, calls, refresh, gotLock, resp, warmDone>>

\* withRpcRotation exhausts its tries on eth_blockNumber: getLatestBlock, and
\* with it incrementalUpdate, throws.
UpdateThrows(h) ==
  /\ pc[h] = "update"
  /\ Quiet
  /\ eff' = [eff EXCEPT ![h] = @ \cup {"rpc"}]
  /\ pc' = [pc EXCEPT ![h] = "catch"]
  /\ DropUpdateLocals(h)
  /\ UNCHANGED <<env, kv, calls, refresh, gotLock, resp, warmDone>>

\* line 593 with a store: the store takes the write of the state.
WriteState(h) ==
  /\ pc[h] = "write_state"
  /\ Quiet
  /\ kvState' = Some(serializeState(Val(upd[h])))
  /\ eff' = [eff EXCEPT ![h] = @ \cup {"wstate"}]
  /\ pc' = [pc EXCEPT ![h] = "write_resp"]
  /\ warmDone' = IF mode[h] = "warm"
                  THEN { IF r.from = scanFrom[h] /\ r.to = latest[h]
                         THEN [r EXCEPT !.kept = TRUE] ELSE r : r \in warmDone }
                  ELSE warmDone
  /\ DropScanLocals(h)
  /\ UNCHANGED <<env, kvResp, kvLock, lockOwner, calls, refresh, gotLock, curWk,
                 st, mode, upd, cut, resp>>

\* line 594: setCachedResponse(formatResponsePayload(updated)).
WriteResp(h) ==
  /\ pc[h] = "write_resp"
  /\ Quiet
  /\ kvResp' = Some(formatResponsePayload(Val(upd[h])))
  /\ eff' = [eff EXCEPT ![h] = @ \cup {"wresp"}]
  /\ pc' = [pc EXCEPT ![h] = "release"]
  /\ DropScanLocals(h)
  /\ UNCHANGED <<env, kvState, kvLock, lockOwner, calls, refresh, gotLock, curWk,
                 st, mode, upd, cut, resp, warmDone>>

\* storeReleaseLock(KV_LOCK_KEY), lines 304-307: del, whoever set the key.
\* delFails: store.del rejects, which is swallowed; the key stays.
storeReleaseLock(h, delFails) ==
  IF storeConfigured /\ ~delFails
  THEN /\ kvLock' = FALSE
       /\ lockOwner' = None
       /\ eff' = [eff EXCEPT ![h] = @ \cup {"unlock"}]
  ELSE /\ delFails => storeConfigured
       /\ UNCHANGED <<kvLock, lockOwner, eff>>

\* lines 595-599: release the lock and send the fresh response.
Release(h, delFails) ==
  /\ pc[h] = "release"
  /\ Quiet
  /\ storeReleaseLock(h, delFails)
  /\ Respond(h, "fresh", formatResponsePayload(Val(upd[h])))
  /\ UNCHANGED <<env, kvState, kvResp, calls, refresh, gotLock, warmDone>>

\* lines 600-614: the catch block.
Catch(h, delFails) ==
  /\ pc[h] = "catch"
  /\ Quiet
  /\ storeReleaseLock(h, delFails)
  /\ Respond(h, "error", ErrorPayload)
  /\ UNCHANGED <<env, kvState, kvResp, calls, refresh, gotLock, warmDone>>

\* Every step of an invocation after its start.
Proceed(h, maxBlock) ==
  \/ \E o \in {"nx", "throws"}, x \in BOOLEAN : AcquireLock(h, o, x)
  \/ \E x \in BOOLEAN : BusyCheck(h, x)
  \/ \E w \in FirstWeek..MaxWeek : LoadState(h, w)
  \/ StoreThrows(h)
  \/ \E nh \in 0..maxBlock, lat \in 0..maxBlock : Update(h, nh, lat)
  \/ UpdateThrows(h)
  \/ WriteState(h)
  \/ WriteResp(h)
  \/ \E f \in BOOLEAN : Release(h, f)
  \/ \E f \in BOOLEAN : Catch(h, f)
  \/ Return(h)


\* =========================================================================
\* The concurrent bisecting scanners: getLogsChunked
\* (src/ETHERS_LOGGER_SETUP.md) and getLogsSafe (src/unnamed/part_002)
\* =========================================================================
\* A block range is [f |-> first, t |-> last] ({f, t} in getLogsChunked,
\* {from, to} in getLogsSafe).
Workers == 1..MaxWorkers

\* No scanner has been called.
ScanIdle ==
  /\ scanner = "none"
  /\ reqFrom = 0 /\ reqTo = 0
  /\ logsConcurrency = 1
  /\ ranges = <<>>
  /\ idx = 0
  /\ wpc = [w \in Workers |-> "off"]
  /\ wcur = [w \in Workers |-> None]
  /\ fetched = <<>>
  /\ scanStatus = "idle"

\* The second half starts at mid instead of mid + 1.
HalvesOverlap(r) ==
  LET mid == r.f + ((r.t - r.f) \div 2)
  IN  << [f |-> r.f, t |-> mid], [f |-> mid, t |-> r.t] >>

\* mid = f + (t - f) / 2n and the two halves pushed by a bisection.
Halves(r) ==
  LET mid == r.f + ((r.t - r.f) \div 2)
  IN  << [f |-> r.f, t |-> mid], [f |-> mid + 1, t |-> r.t] >>

\* getLogsChunked lines 173-178: the fixed-size ranges.
RECURSIVE BuildRanges(_, _)
BuildRanges(f, toBlock) ==
  IF f > toBlock THEN <<>>
  ELSE LET t == IF f + MAX_BLOCK_SPAN > toBlock THEN toBlock ELSE f + MAX_BLOCK_SPAN
       IN  << [f |-> f, t |-> t] >> \o BuildRanges(t + 1, toBlock)

\* The worker forgets to advance idx and takes the same entry again.
ChunkedTakeAgain(rs, i) ==
  [ idx |-> i,
    pc  |-> IF i >= Len(rs) THEN "exit" ELSE "fetch",
    cur |-> IF i >= Len(rs) THEN None ELSE Some(rs[i + 1]) ]

\* getLogsChunked lines 185-187, the head of the worker's loop:
\* const i = idx++; if (i >= ranges.length) return; ranges[i] is fetched.
\* (idx counts from 0, sequences from 1.)
ChunkedTake(rs, i) ==
  [ idx |-> i + 1,
    pc  |-> IF i >= Len(rs) THEN "exit" ELSE "fetch",
    cur |-> IF i >= Len(rs) THEN None ELSE Some(rs[i + 1]) ]

\* Promise.all(Array.from({length: n}, worker)): the workers are called one
\* after the other and each runs to its first await.
RECURSIVE ChunkedStart(_, _, _, _)
ChunkedStart(w, n, rs, st0) ==
  IF w > n THEN st0
  ELSE LET tk == ChunkedTake(rs, st0.idx)
       IN  ChunkedStart(w + 1, n, rs,
                        [ idx  |-> tk.idx,
                          wpc  |-> [st0.wpc EXCEPT ![w] = tk.pc],
                          wcur |-> [st0.wcur EXCEPT ![w] = tk.cur] ])

\* getLogsChunked(fromBlock, toBlock), lines 166-208, up to the first await
\* of every worker; conc is LOGS_CONCURRENCY.
ChunkedCall(fromBlock, toBlock, conc) ==
  /\ scanStatus = "idle"
  /\ fromBlock <= toBlock
  /\ LET rs == BuildRanges(fromBlock, toBlock)
         n  == Min(conc, Len(rs))
         s1 == ChunkedStart(1, n, rs, [idx |-> 0, wpc |-> wpc, wcur |-> wcur])
     IN  /\ ranges' = rs
         /\ idx' = s1.idx
         /\ wpc' = s1.wpc
         /\ wcur' = s1.wcur
  /\ scanner' = "chunked"
  /\ reqFrom' = fromBlock /\ reqTo' = toBlock
  /\ logsConcurrency' = conc
  /\ fetched' = <<>>
  /\ scanStatus' = "running"
  /\ UNCHANGED honly

\* The worker goes round its loop once more (lines 184-187).
ChunkedLoop(w, rs) ==
  LET tk == ChunkedTake(rs, idx)
  IN  /\ idx' = tk.idx
      /\ wpc' = [wpc EXCEPT ![w] = tk.pc]
      /\ wcur' = [wcur EXCEPT ![w] = tk.cur]
      /\ ranges' = rs

\* lines 192-193: eth_getLogs answered for the worker's range.
ChunkedOk(w) ==
  /\ scanner = "chunked" /\ scanStatus = "running"
  /\ wpc[w] = "fetch"
  /\ fetched' = Append(fetched, Val(wcur[w]))
  /\ ChunkedLoop(w, ranges)
  /\ UNCHANGED <<scanner, reqFrom, reqTo, logsConcurrency, scanStatus, honly>>

\* A rejected one-block range is dropped and the worker takes the next one.
ChunkedRejectSkips(w) ==
  /\ scanner = "chunked" /\ scanStatus = "running"
  /\ wpc[w] = "fetch"
  /\ IF Val(wcur[w]).t > Val(wcur[w]).f
     THEN ChunkedLoop(w, ranges \o Halves(Val(wcur[w])))
     ELSE ChunkedLoop(w, ranges)
  /\ UNCHANGED <<scanner, reqFrom, reqTo, logsConcurrency, fetched, scanStatus, honly>>

\* lines 194-203: eth_getLogs was rejected with a range-limit or a
\* too-many-results error: bisect, or throw when the range is one block.
ChunkedReject(w) ==
  /\ scanner = "chunked" /\ scanStatus = "running"
  /\ wpc[w] = "fetch"
  /\ IF Val(wcur[w]).t > Val(wcur[w]).f
     THEN /\ ChunkedLoop(w, ranges \o Halves(Val(wcur[w])))
          /\ UNCHANGED scanStatus
     ELSE /\ wpc' = [wpc EXCEPT ![w] = "exit"]
          /\ wcur' = [wcur EXCEPT ![w] = None]
          /\ scanStatus' = "threw"
          /\ UNCHANGED <<ranges, idx>>
  /\ UNCHANGED <<scanner, reqFrom, reqTo, logsConcurrency, fetched, honly>>

\* line 203: any other error is rethrown and Promise.all rejects.
ChunkedFail(w) ==
  /\ scanner = "chunked" /\ scanStatus = "running"
  /\ wpc[w] = "fetch"
  /\ wpc' = [wpc EXCEPT ![w] = "exit"]
  /\ wcur' = [wcur EXCEPT ![w] = None]
  /\ scanStatus' = "threw"
  /\ UNCHANGED <<scanner, reqFrom, reqTo, logsConcurrency, ranges, idx, fetched, honly>>

\* getLogsSafe lines 65-75, the head of the worker's loop: pop; return on an
\* empty queue; split a range wider than MAX_BLOCK_SPAN and pop again.
RECURSIVE SafeTake(_)
SafeTake(q) ==
  IF q = <<>> THEN [queue |-> q, pc |-> "exit", cur |-> None]
  ELSE LET range == q[Len(q)]
           rest  == SubSeq(q, 1, Len(q) - 1)
       IN  IF range.t - range.f > MAX_BLOCK_SPAN
           THEN SafeTake(rest \o Halves(range))
           ELSE [queue |-> rest, pc |-> "fetch", cur |-> Some(range)]

RECURSIVE SafeStart(_, _, _)
SafeStart(w, n, st0) ==
  IF w > n THEN st0
  ELSE LET tk == SafeTake(st0.queue)
       IN  SafeStart(w + 1, n,
                     [ queue |-> tk.queue,
                       wpc   |-> [st0.wpc EXCEPT ![w] = tk.pc],
                       wcur  |-> [st0.wcur EXCEPT ![w] = tk.cur] ])

\* getLogsSafe(fromBlock, toBlock), lines 59-100, up to the first await of
\* every worker; conc is LOGS_CONCURRENCY.
SafeCall(fromBlock, toBlock, conc) ==
  /\ scanStatus = "idle"
  /\ fromBlock <= toBlock
  /\ LET s1 == SafeStart(1, conc, [queue |-> << [f |-> fromBlock, t |-> toBlock] >>,
                                   wpc |-> wpc, wcur |-> wcur])
     IN  /\ ranges' = s1.queue
         /\ wpc' = s1.wpc
         /\ wcur' = s1.wcur
  /\ scanner' = "safe"
  /\ reqFrom' = fromBlock /\ reqTo' = toBlock
  /\ logsConcurrency' = conc
  /\ fetched' = <<>>
  /\ scanStatus' = "running"
  /\ UNCHANGED <<idx, honly>>

SafeLoop(w, q) ==
  LET tk == SafeTake(q)
  IN  /\ ranges' = tk.queue
      /\ wpc' = [wpc EXCEPT ![w] = tk.pc]
      /\ wcur' = [wcur EXCEPT ![w] = tk.cur]

\* lines 85-86: eth_getLogs answered for the worker's range.
SafeOk(w) ==
  /\ scanner = "safe" /\ scanStatus = "running"
  /\ wpc[w] = "fetch"
  /\ fetched' = Append(fetched, Val(wcur[w]))
  /\ SafeLoop(w, ranges)
  /\ UNCHANGED <<scanner, reqFrom, reqTo, logsConcurrency, idx, scanStatus, honly>>

\* lines 87-95: a range-limit or too-many-results rejection: bisect, or
\* throw when the range is one block.
SafeReject(w) ==
  /\ scanner = "safe" /\ scanStatus = "running"
  /\ wpc[w] = "fetch"
  /\ IF Val(wcur[w]).f < Val(wcur[w]).t
     THEN /\ SafeLoop(w, ranges \o Halves(Val(wcur[w])))
          /\ UNCHANGED scanStatus
     ELSE /\ wpc' = [wpc EXCEPT ![w] = "exit"]
          /\ wcur' = [wcur EXCEPT ![w] = None]
          /\ scanStatus' = "threw"
          /\ UNCHANGED ranges
  /\ UNCHANGED <<scanner, reqFrom, reqTo, logsConcurrency, idx, fetched, honly>>

\* line 95: any other error is rethrown and Promise.all rejects.
SafeFail(w) ==
  /\ scanner = "safe" /\ scanStatus = "running"
  /\ wpc[w] = "fetch"
  /\ wpc' = [wpc EXCEPT ![w] = "exit"]
  /\ wcur' = [wcur EXCEPT ![w] = None]
  /\ scanStatus' = "threw"
  /\ UNCHANGED <<scanner, reqFrom, reqTo, logsConcurrency, ranges, idx, fetched, honly>>

\* await Promise.all(...); return out: every worker that was started has
\* returned.  (After a throw the promise is already rejected; what the
\* remaining workers still do is not observed.)
ScanReturn ==
  /\ scanStatus = "running"
  /\ \A w \in Workers : wpc[w] \in {"off", "exit"}
  /\ scanStatus' = "returned"
  /\ UNCHANGED <<scanner, reqFrom, reqTo, logsConcurrency, ranges, idx, wpc, wcur, fetched, honly>>

\* =========================================================================
\* The aggregation of src/api/leaderboard.js taken alone
\* =========================================================================
\* No record is being folded.
FoldIdle ==
  /\ foldBase = <<>>
  /\ foldLogs = <<>>
  /\ foldWeeks = <<>>
  /\ rawWeeks = <<>>
  /\ folds = 0
  /\ ranked = None
  /\ season = None

\* The decoded records an update may meet: points for the current week, for
\* the previous week, for a week that is not tracked, and a payload that
\* does not decode.
FoldRecords ==
  { [user |-> "a1", dec |-> Some([points |-> 500, week |-> week])],
    [user |-> "a1", dec |-> Some([points |-> 300, week |-> week])],
    [user |-> "a2", dec |-> Some([points |-> 500, week |-> week])],
    [user |-> "a3", dec |-> Some([points |-> 300, week |-> week])],
    [user |-> "a2", dec |-> Some([points |-> 300, week |-> week - WEEK_MS])],
    [user |-> "a3", dec |-> Some([points |-> 500, week |-> week + WEEK_MS])],
    [user |-> "a1", dec |-> None] }

\* One turn of the loop "for (const l of logs)", lines 465-477 and 510-521.
FoldOne(l) ==
  /\ folds < MaxFold
  /\ foldWeeks # <<>>
  /\ foldWeeks' = FoldLog(foldWeeks, l, week, week - WEEK_MS)
  /\ rawWeeks' = FoldLog(rawWeeks, l, week, week - WEEK_MS)
  /\ foldLogs' = Append(foldLogs, l)
  /\ folds' = folds + 1
  /\ ranked' = None
  /\ season' = None
  /\ UNCHANGED <<foldBase, notfold>>

\* The end of a warm update, lines 524-526: the state that is persisted and
\* that the next update starts from.
EndUpdate ==
  /\ foldWeeks # <<>>
  /\ foldWeeks' = KeepTracked(foldWeeks, week, week - WEEK_MS)
  /\ foldBase' = foldWeeks'
  /\ foldLogs' = <<>>
  /\ ranked' = None
  /\ season' = None
  /\ UNCHANGED <<rawWeeks, folds, notfold>>

\* The current period's map is ranked as formatResponsePayload does (sorted)
\* and pruned to keep entries as pruneToTop does.
Rank(keep) ==
  /\ foldWeeks # <<>>
  /\ LET m == FindWeekMap(foldWeeks, week)
     IN  ranked' = Some([ map          |-> m,
                          keep         |-> keep,
                          sorted       |-> sortMapToArray(m),
                          pruned       |-> pruneToTop(m, keep),
                          prunedSorted |-> sortMapToArray(pruneToTop(m, keep)) ])
  /\ season' = None
  /\ UNCHANGED <<foldBase, foldLogs, foldWeeks, rawWeeks, folds, notfold>>

\* The record replaces the total of its address.
SeasonAddLastWins(acc, l, wkKey, prevKey) ==
  IF ~IsSome(l.dec) THEN acc
  ELSE IF Val(l.dec).week = wkKey
       THEN [acc EXCEPT !.weeklyMap = MapSet(@, l.user, Val(l.dec).points)]
  ELSE IF Val(l.dec).week = prevKey
       THEN [acc EXCEPT !.prevWeekMap = MapSet(@, l.user, Val(l.dec).points)]
  ELSE acc

\* computeWeeklySeason, ETHERS_LOGGER_SETUP.md lines 273-284: the body of
\* the loop over logs, for one record.
SeasonAdd(acc, l, wkKey, prevKey) ==
  IF ~IsSome(l.dec) THEN acc
  ELSE IF Val(l.dec).week = wkKey
       THEN [acc EXCEPT !.weeklyMap =
               MapSet(@, l.user, MapGet(@, l.user) + Val(l.dec).points)]
  ELSE IF Val(l.dec).week = prevKey
       THEN [acc EXCEPT !.prevWeekMap =
               MapSet(@, l.user, MapGet(@, l.user) + Val(l.dec).points)]
  ELSE acc

\* computeWeeklySeason, lines 268-285: weeklyMap and prevWeekMap after the
\* loop over logs.
RECURSIVE SeasonFold(_, _, _)
SeasonFold(logs, wkKey, prevKey) ==
  IF logs = <<>> THEN [weeklyMap |-> <<>>, prevWeekMap |-> <<>>]
  ELSE SeasonAdd(SeasonFold(SubSeq(logs, 1, Len(logs) - 1), wkKey, prevKey),
                 logs[Len(logs)], wkKey, prevKey)

\* The orders in which n completed eth_getLogs calls can push their records
\* to out (getLogsChunked line 193).
Orders(n) == { p \in [1..n -> 1..n] : \A i \in 1..n, j \in 1..n : p[i] = p[j] => i = j }

\* computeWeeklySeason aggregates the records of the running scan, once as
\* the blocks hold them and once as the workers pushed them.
Season ==
  /\ foldLogs # <<>>
  /\ Len(foldLogs) <= MaxSeasonLogs
  /\ foldBase = FreshState(week).weeks
  /\ ranked = None
  /\ \E order \in Orders(Len(foldLogs)) :
       LET pushed == [i \in 1..Len(foldLogs) |-> foldLogs[order[i]]]
       IN  season' = Some([ logs     |-> foldLogs,
                            pushed   |-> pushed,
                            inOrder  |-> SeasonFold(foldLogs, week, week - WEEK_MS),
                            asPushed |-> SeasonFold(pushed, week, week - WEEK_MS) ])
  /\ UNCHANGED <<foldBase, foldLogs, foldWeeks, rawWeeks, folds, ranked, notfold>>

\* =========================================================================
\* fetchLogsRange and withRpcRotation of src/api/leaderboard.js taken alone
\* =========================================================================
\* fetchLogsRange has not been called.
FetchIdle ==
  /\ fetchStatus = "idle"
  /\ fetchFrom = 0 /\ fetchTo = 0 /\ fetchStep = 0
  /\ fetchOut = <<>>
  /\ rotTries = 0
  /\ rotLastErr = None
  /\ rotEnded = None
  /\ exhausted = FALSE

\* How an invocation of fn = rpcCall(url, "eth_getLogs", [filter]) fails:
\* HTTP 429 / a rate-limit body, HTTP 5xx, "fetch failed" or a timeout, the
\* provider's block-range rejection, any other JSON-RPC error (a malformed
\* request).
ErrKinds == {"rateLimit", "server", "network", "range", "client"}

\* fetchLogsRange's catch, lines 333-354: the step after a failed
\* withRpcRotation call.  hasLimitWord: the message holds "limit" (as the
\* body of a rate-limit answer may do).
StepAfter(kind, hasLimitWord, stp) ==
  IF kind = "range" \/ (kind = "rateLimit" /\ hasLimitWord)
     THEN Max(stp \div 2, HARD_MIN_STEP)
  ELSE IF kind \in {"rateLimit", "network"} THEN stp
  ELSE Max(stp \div 2, HARD_MIN_STEP)

\* The head of fetchLogsRange's loop, lines 316-330: leave it when from is
\* past toBlock or the deadline has passed (late), else start a
\* withRpcRotation call, which invokes fn for the first time.
LoopHead(from, toBlock, stp, late) ==
  /\ fetchFrom' = from
  /\ fetchStep' = stp
  /\ rotLastErr' = None
  /\ IF from > toBlock \/ late
     THEN fetchStatus' = "returned" /\ rotTries' = 0
     ELSE fetchStatus' = "running" /\ rotTries' = 1

\* fetchLogsRange(fromBlock, toBlock, 8000n, 900n, deadlineMs) is called.
FetchCall(fromBlock, toBlock, late) ==
  /\ fetchStatus = "idle"
  /\ fetchTo' = toBlock
  /\ fetchOut' = <<>>
  /\ LoopHead(fromBlock, toBlock, STEP_INITIAL, late)
  /\ UNCHANGED <<rotEnded, exhausted, notfetch>>

\* fn resolved: withRpcRotation returns its result (line 155), the logs are
\* pushed and from moves behind to (lines 331-332).
AttemptOk(late) ==
  /\ fetchStatus = "running"
  /\ LET to == Min(fetchFrom + fetchStep, fetchTo)
     IN  /\ fetchOut' = Append(fetchOut, [f |-> fetchFrom, t |-> to])
         /\ LoopHead(to + 1, fetchTo, fetchStep, late)
  /\ rotEnded' = Some([n |-> rotTries, result |-> "ok", err |-> None])
  /\ UNCHANGED <<fetchTo, exhausted, notfetch>>

\* fn rejected one time too many before withRpcRotation gives up.
AttemptFailsOnceMore(kind, hasLimitWord, late) ==
  /\ fetchStatus = "running"
  /\ IF rotTries <= tries
     THEN /\ ~late /\ ~hasLimitWord
          /\ rotTries' = rotTries + 1
          /\ rotLastErr' = Some(kind)
          /\ UNCHANGED <<fetchStatus, fetchFrom, fetchStep, rotEnded, exhausted>>
     ELSE /\ rotEnded' = Some([n |-> rotTries, result |-> "threw", err |-> Some(kind)])
          /\ exhausted' = TRUE
          /\ LoopHead(fetchFrom, fetchTo, StepAfter(kind, hasLimitWord, fetchStep), late)
  /\ UNCHANGED <<fetchTo, fetchOut, notfetch>>

\* fn rejected with an error of the given kind (lines 156-170): lastErr = e,
\* sleep, and either fn is invoked again or, after the last try,
\* withRpcRotation throws lastErr (line 172) into fetchLogsRange's catch.
AttemptFails(kind, hasLimitWord, late) ==
  /\ fetchStatus = "running"
  /\ IF rotTries < tries
     THEN /\ ~late /\ ~hasLimitWord
          /\ rotTries' = rotTries + 1
          /\ rotLastErr' = Some(kind)
          /\ UNCHANGED <<fetchStatus, fetchFrom, fetchStep, rotEnded, exhausted>>
     ELSE /\ rotEnded' = Some([n |-> rotTries, result |-> "threw", err |-> Some(kind)])
          /\ exhausted' = TRUE
          /\ LoopHead(fetchFrom, fetchTo, StepAfter(kind, hasLimitWord, fetchStep), late)
  /\ UNCHANGED <<fetchTo, fetchOut, notfetch>>

\* =========================================================================
\* makeRpcRotator of src/unnamed/part_000
\* =========================================================================
\* No rotator is in use.
RotIdle ==
  /\ rrPool = 1
  /\ rrCursor = 0
  /\ rrUrl = [w \in 1..MaxWorkers |-> None]
  /\ rrPrev = [w \in 1..MaxWorkers |-> None]
  /\ rrAttempt = [w \in 1..MaxWorkers |-> 0]
  /\ rrCalls = 0

\* lines 1506-1508: const url = list[cursor % list.length]; cursor++;
\* and fn(url) is awaited.
TakeUrl(w) ==
  /\ rrUrl' = [rrUrl EXCEPT ![w] = Some(rrCursor % rrPool)]
  /\ rrCursor' = rrCursor + 1

\* A scan worker calls withRpcRotation(fn): attempt 0.
RotCall(w) ==
  /\ rrCalls < MaxRotCalls
  /\ rrUrl[w] = None
  /\ Min(6, rrPool * 2) > 0
  /\ TakeUrl(w)
  /\ rrPrev' = [rrPrev EXCEPT ![w] = None]
  /\ rrAttempt' = [rrAttempt EXCEPT ![w] = 0]
  /\ rrCalls' = rrCalls + 1
  /\ UNCHANGED <<rrPool, notrot>>

\* fn resolved: the call returns (line 1510).
RotOk(w) ==
  /\ rrUrl[w] # None
  /\ rrUrl' = [rrUrl EXCEPT ![w] = None]
  /\ rrPrev' = [rrPrev EXCEPT ![w] = None]
  /\ UNCHANGED <<rrPool, rrCursor, rrAttempt, rrCalls, notrot>>

\* fn rejected (lines 1511-1531): a transient error sleeps and goes to the
\* next attempt while attempt + 1 < min(6, 2 * list.length); any other
\* error, or the last attempt, ends the loop and the call throws.
RotFail(w, transient) ==
  /\ rrUrl[w] # None
  /\ IF transient /\ rrAttempt[w] + 1 < Min(6, rrPool * 2)
     THEN /\ TakeUrl(w)
          /\ rrPrev' = [rrPrev EXCEPT ![w] = rrUrl[w]]
          /\ rrAttempt' = [rrAttempt EXCEPT ![w] = @ + 1]
     ELSE /\ rrUrl' = [rrUrl EXCEPT ![w] = None]
          /\ rrPrev' = [rrPrev EXCEPT ![w] = None]
          /\ UNCHANGED <<rrCursor, rrAttempt>>
  /\ UNCHANGED <<rrPool, rrCalls, notrot>>

\* =========================================================================
\* The log data decoders
\* =========================================================================
\* No log is being decoded.
DecodeIdle ==
  /\ data = <<>>
  /\ payload = None
  /\ decoded = None
  /\ extracted = None

\* A string of hex digits is the sequence of its digits' values; a result is
\* null, a value, or the exception the function threw.
Null == [kind |-> "null"]
Threw == [kind |-> "threw"]

\* str.slice(a, b) for 0 <= a <= b
Slice(str, a, b) == SubSeq(str, a + 1, Min(b, Len(str)))

\* The value of a string of hex digits
RECURSIVE HexVal(_)
HexVal(str) ==
  IF str = <<>> THEN 0 ELSE HexVal(SubSeq(str, 1, Len(str) - 1)) * 16 + str[Len(str)]

\* BigInt("0x" + str): a SyntaxError when str is empty
ParseBigInt(str) == IF str = <<>> THEN Threw ELSE [kind |-> "value", n |-> HexVal(str)]

\* dataHex.startsWith("0x") ? dataHex.slice(2) : dataHex
Strip0x(dataHex) == dataHex.digits

\* leaderboard.js lines 182-191
extractBytesParamFromLogData(dataHex) ==
  LET hex == Strip0x(dataHex)
  IN  IF Len(hex) < 2 * WORD_HEX THEN Null
      ELSE LET len == ParseBigInt(Slice(hex, WORD_HEX, 2 * WORD_HEX))
           IN  IF len.kind = "threw" THEN Threw
               ELSE LET start == 2 * WORD_HEX
                        end   == start + len.n * 2
                    IN  IF end > Len(hex) THEN Null
                        ELSE [kind |-> "value", prefix |-> TRUE, digits |-> Slice(hex, start, end)]

\* The payload is parsed whatever its length.
decodePointsAndWeekUnchecked(payloadHex) ==
  LET hex == IF payloadHex.kind = "value" THEN Strip0x(payloadHex) ELSE <<>>
      points == ParseBigInt(Slice(hex, 0, WORD_HEX))
      wk     == ParseBigInt(Slice(hex, WORD_HEX, 2 * WORD_HEX))
  IN  IF points.kind = "threw" \/ wk.kind = "threw" THEN Threw
      ELSE [kind |-> "value", points |-> points.n, week |-> wk.n]

\* leaderboard.js lines 194-201
decodePointsAndWeek(payloadHex) ==
  LET hex == IF payloadHex.kind = "value" THEN Strip0x(payloadHex) ELSE <<>>
  IN  IF hex = <<>> \/ Len(hex) < 2 * WORD_HEX THEN Null
      ELSE LET points == ParseBigInt(Slice(hex, 0, WORD_HEX))
               wk     == ParseBigInt(Slice(hex, WORD_HEX, 2 * WORD_HEX))
           IN  IF points.kind = "threw" \/ wk.kind = "threw" THEN Threw
               ELSE [kind |-> "value", points |-> points.n, week |-> wk.n]

\* part_000 lines 833-862
extractBytesParamFromLogData_part000(dataHex) ==
  LET hex == Strip0x(dataHex)
  IN  IF Len(hex) < 2 * WORD_HEX THEN Null
      ELSE LET w0 == ParseBigInt(Slice(hex, 0, WORD_HEX))
               w1 == ParseBigInt(Slice(hex, WORD_HEX, 2 * WORD_HEX))
           IN  IF w0.kind = "threw" \/ w1.kind = "threw" THEN Threw
               ELSE LET layoutA    == w0.n = WORD_HEX \div 2
                        lenPos     == IF layoutA THEN WORD_HEX ELSE w1.n * 2
                        bytesStart == IF layoutA THEN 2 * WORD_HEX ELSE lenPos + WORD_HEX
                    IN  IF ~layoutA /\ lenPos + WORD_HEX > Len(hex) THEN Null
                        ELSE LET len == ParseBigInt(Slice(hex, lenPos, lenPos + WORD_HEX))
                             IN  IF len.kind = "threw" THEN Threw
                                 ELSE LET end == bytesStart + len.n * 2
                                      IN  IF end > Len(hex) THEN Null
                                          ELSE [kind |-> "value", prefix |-> TRUE,
                                                digits |-> Slice(hex, bytesStart, end)]

\* The loops of leaderboard.js decode the data of a log (lines 467-468,
\* 512-513); the data comes with or without its "0x".
DecodeLog(prefix) ==
  /\ decoded = None /\ extracted = None
  /\ LET p == extractBytesParamFromLogData([prefix |-> prefix, digits |-> data])
     IN  /\ payload' = Some(p)
         /\ decoded' = Some(decodePointsAndWeek(p))
  /\ UNCHANGED <<data, extracted, notdec>>

\* part_000's decoder extracts the payload of a log.
ExtractPayload(prefix) ==
  /\ decoded = None /\ extracted = None
  /\ extracted' = Some(extractBytesParamFromLogData_part000(
                          [prefix |-> prefix, digits |-> data]))
  /\ UNCHANGED <<data, payload, decoded, notdec>>

\* =========================================================================
\* The memCache handler of src/ETHERS_LOGGER_SETUP.md
\* =========================================================================
Reqs == 1..MaxReqs

\* let memCache = { key: null, at: 0, data: null, inFlight: null }, and no
\* request yet.  memCache.at is kept as "fresh": now - at < MEM_TTL_MS.
MemIdle ==
  /\ memCache = [key |-> None, fresh |-> FALSE, data |-> None, inFlight |-> None]
  /\ reqs = [r \in Reqs |-> [pc |-> "new", week |-> 0, on |-> 0, out |-> None]]
  /\ prom = [r \in Reqs |-> "none"]
  /\ arrived = 0

\* The result of computeWeeklySeason(weekStart): it carries its weekStart.
SeasonData(weekStart) == [kind |-> "data", weekStart |-> weekStart]

\* handler lines 307-337, from the arrival of a request to its first await
\* or to its answer from the warm cache.
Request(weekStart) ==
  /\ arrived < MaxReqs
  /\ arrived' = arrived + 1
  /\ LET r == arrived + 1
         cacheKey == Some(weekStart)
     IN  IF IsSome(memCache.data) /\ memCache.key = cacheKey /\ memCache.fresh
         THEN /\ reqs' = [reqs EXCEPT ![r] = [pc |-> "done", week |-> weekStart, on |-> 0,
                                              out |-> memCache.data]]
              /\ UNCHANGED <<memCache, prom>>
         ELSE IF IsSome(memCache.inFlight) /\ memCache.key = cacheKey
         THEN /\ reqs' = [reqs EXCEPT ![r] = [pc |-> "waiting", week |-> weekStart,
                                              on |-> Val(memCache.inFlight), out |-> None]]
              /\ UNCHANGED <<memCache, prom>>
         ELSE /\ memCache' = [memCache EXCEPT !.key = cacheKey, !.inFlight = Some(r)]
              /\ prom' = [prom EXCEPT ![r] = "pending"]
              /\ reqs' = [reqs EXCEPT ![r] = [pc |-> "waiting", week |-> weekStart,
                                              on |-> r, out |-> None]]
  /\ UNCHANGED notmem

\* lines 327-341: the computation that request p started settles.  When it
\* fulfils, .then stores its data and the time; .finally clears inFlight;
\* every request that awaits the promise answers with its data, or with the
\* error (status 500) when it rejects.
Settle(p, fulfils) ==
  /\ prom[p] = "pending"
  /\ prom' = [prom EXCEPT ![p] = "settled"]
  /\ memCache' = IF fulfils
                  THEN [memCache EXCEPT !.data = Some(SeasonData(reqs[p].week)),
                                        !.fresh = TRUE,
                                        !.inFlight = None]
                  ELSE [memCache EXCEPT !.inFlight = None]
  /\ reqs' = [r \in Reqs |->
                IF reqs[r].pc = "waiting" /\ reqs[r].on = p
                THEN [reqs[r] EXCEPT !.pc = "done",
                                     !.out = IF fulfils THEN Some(SeasonData(reqs[p].week))
                                             ELSE Some([kind |-> "error"])]
                ELSE reqs[r]]
  /\ UNCHANGED <<arrived, notmem>>

\* MEM_TTL_MS have passed since memCache.at.
Expire ==
  /\ memCache.fresh
  /\ memCache' = [memCache EXCEPT !.fresh = FALSE]
  /\ UNCHANGED <<reqs, prom, arrived, notmem>>

\* What an earlier invocation may have left in the store: nothing, or the
\* state and snapshot of a complete backfill at block 1 in the first week.
PriorStates ==
  {None} \cup { Some(r.state) : r \in { q \in backfillTwoWeeks(FirstWeek, 1) : ~q.run.cut } }

Init ==
  /\ storeConfigured \in BOOLEAN
  /\ \E prior \in PriorStates :
        /\ kvState = (IF IsSome(prior) THEN Some(serializeState(Val(prior))) ELSE None)
        /\ kvResp = (IF IsSome(prior) THEN Some(formatResponsePayload(Val(prior))) ELSE None)
  /\ InitHandlers
  /\ ScanIdle
  /\ FoldIdle
  /\ FetchIdle
  /\ RotIdle
  /\ DecodeIdle
  /\ MemIdle

Next ==
  \E h \in Handlers :
    \/ \E r \in BOOLEAN, x \in BOOLEAN, f \in BOOLEAN : Start(h, r, x, f)
    \/ Proceed(h, MaxBlock)

Spec == Init /\ [][Next]_hvars

NextSeq ==
  \E h \in Handlers :
    \/ \E r \in BOOLEAN, x \in BOOLEAN, f \in BOOLEAN : StartSeq(h, r, x, f)
    \/ Proceed(h, MaxBlockSeq)

SpecSeq == Init /\ [][NextSeq]_hvars

\* A scanner is called once, with any request and any worker count.
InitScan ==
  /\ storeConfigured = FALSE
  /\ kvState = None
  /\ kvResp = None
  /\ InitHandlers
  /\ ScanIdle
  /\ FoldIdle
  /\ FetchIdle
  /\ RotIdle
  /\ DecodeIdle
  /\ MemIdle

NextScan ==
  \/ \E f \in 0..1, t \in 0..MaxScanTo, c \in Workers : ChunkedCall(f, t, c)
  \/ \E f \in 0..1, t \in 0..MaxScanTo, c \in Workers : SafeCall(f, t, c)
  \/ \E w \in Workers :
        \/ ChunkedOk(w)
        \/ ChunkedReject(w)
        \/ ChunkedFail(w)
        \/ SafeOk(w)
        \/ SafeReject(w)
        \/ SafeFail(w)
  \/ ScanReturn

SpecScan == InitScan /\ [][NextScan]_hvars

\* Every rotated RPC call terminates: a worker that awaits eth_getLogs is
\* answered in the end (with logs, a rejection or another error), and
\* Promise.all settles once every worker has returned.
ScanFairness ==
  /\ \A w \in Workers : WF_hvars(ChunkedOk(w) \/ ChunkedReject(w) \/ ChunkedFail(w))
  /\ \A w \in Workers : WF_hvars(SafeOk(w) \/ SafeReject(w) \/ SafeFail(w))
  /\ WF_hvars(ScanReturn)

SpecScanLive == SpecScan /\ ScanFairness

\* An update starts from the fresh maps of the current and the previous week.
InitFold ==
  /\ storeConfigured = FALSE
  /\ kvState = None
  /\ kvResp = None
  /\ InitHandlers
  /\ ScanIdle
  /\ foldBase = FreshState(week).weeks
  /\ foldLogs = <<>>
  /\ foldWeeks = FreshState(week).weeks
  /\ rawWeeks = FreshState(week).weeks
  /\ folds = 0
  /\ ranked = None
  /\ season = None
  /\ FetchIdle
  /\ RotIdle
  /\ DecodeIdle
  /\ MemIdle

NextFold ==
  \/ \E l \in FoldRecords : FoldOne(l)
  \/ EndUpdate
  \/ \E keep \in 0..MaxKeep : Rank(keep)
  \/ Season

SpecFold == InitFold /\ [][NextFold]_hvars

\* fetchLogsRange is called once, for any range.
InitFetch ==
  /\ storeConfigured = FALSE
  /\ kvState = None
  /\ kvResp = None
  /\ InitHandlers
  /\ ScanIdle
  /\ FoldIdle
  /\ FetchIdle
  /\ RotIdle
  /\ DecodeIdle
  /\ MemIdle

NextFetch ==
  \/ \E f \in 0..1, t \in 0..MaxScanTo, late \in BOOLEAN : FetchCall(f, t, late)
  \/ \E late \in BOOLEAN : AttemptOk(late)
  \/ \E kind \in ErrKinds, w \in BOOLEAN, late \in BOOLEAN : AttemptFails(kind, w, late)

SpecFetch == InitFetch /\ [][NextFetch]_hvars

\* makeRpcRotator(urls): a pool of any size, cursor at a random index
\* (line 1503).
InitRot ==
  /\ storeConfigured = FALSE
  /\ kvState = None
  /\ kvResp = None
  /\ InitHandlers
  /\ ScanIdle
  /\ FoldIdle
  /\ FetchIdle
  /\ rrPool \in 1..MaxPool
  /\ rrCursor \in 0..(rrPool - 1)
  /\ rrUrl = [w \in 1..MaxWorkers |-> None]
  /\ rrPrev = [w \in 1..MaxWorkers |-> None]
  /\ rrAttempt = [w \in 1..MaxWorkers |-> 0]
  /\ rrCalls = 0
  /\ DecodeIdle
  /\ MemIdle

NextRot ==
  \E w \in Workers :
    \/ RotCall(w)
    \/ RotOk(w)
    \/ \E transient \in BOOLEAN : RotFail(w, transient)

SpecRot == InitRot /\ [][NextRot]_hvars

\* The hex digits the log data is made of: enough for the words 0, 1
\* (an offset of one word), 2 (an offset or a length of two words) and
\* for lengths that point past the end.
InDigits == {0, 1, 2}

\* Any string of at most MaxHexLen digits.
InitDecode ==
  /\ storeConfigured = FALSE
  /\ kvState = None
  /\ kvResp = None
  /\ InitHandlers
  /\ ScanIdle
  /\ FoldIdle
  /\ FetchIdle
  /\ RotIdle
  /\ \E n \in 0..MaxHexLen : data \in [1..n -> InDigits]
  /\ payload = None
  /\ decoded = None
  /\ extracted = None
  /\ MemIdle

NextDecode ==
  \E prefix \in BOOLEAN :
    \/ DecodeLog(prefix)
    \/ ExtractPayload(prefix)

SpecDecode == InitDecode /\ [][NextDecode]_hvars

\* One warm instance serves any requests, for any of the weeks.
InitMem ==
  /\ storeConfigured = FALSE
  /\ kvState = None
  /\ kvResp = None
  /\ InitHandlers
  /\ ScanIdle
  /\ FoldIdle
  /\ FetchIdle
  /\ RotIdle
  /\ DecodeIdle
  /\ MemIdle

NextMem ==
  \/ \E weekStart \in 1..MaxMemWeeks : Request(weekStart)
  \/ \E p \in Reqs, fulfils \in BOOLEAN : Settle(p, fulfils)
  \/ Expire

SpecMem == InitMem /\ [][NextMem]_hvars

TypeOK == \A h \in Handlers : pc[h] \in {"idle", "done", "lock", "busy", "load",
            "update", "write_state", "write_resp", "release", "catch"}

\* =========================================================================
\* Properties of the scanners
\* =========================================================================
\* The number of successfully fetched ranges that hold block b.
TimesFetched(b) ==
  Cardinality({ i \in 1..Len(fetched) : fetched[i].f <= b /\ b <= fetched[i].t })

\* C2: if a scan returns, the ranges whose eth_getLogs call succeeded
\* partition [from, to]: every block lies in exactly one of them.
C2_FetchedRangesPartition ==
  scanStatus = "returned" => \A b \in reqFrom..reqTo : TimesFetched(b) = 1

\* =========================================================================
\* Properties of the handler
\* =========================================================================
\* The state an invocation is about to persist, or has just persisted into
\* MEM_STATE, while the bookkeeping of its scan is still in scope.
Persisting(h) ==
  /\ IsSome(upd[h])
  /\ \/ storeConfigured /\ pc[h] = "write_state"
     \/ ~storeConfigured /\ pc[h] = "write_resp" /\ "wresp" \notin eff[h]

\* lastProcessedBlock of a stored state; a stored null counts as block 0.
StoredLpb(raw) ==
  IF IsSome(Val(raw).lastProcessedBlock)
  THEN FromDec(Val(Val(raw).lastProcessedBlock))
  ELSE 0

\* The points the ledger holds for address a in period wk in the given logs.
RECURSIVE SumPoints(_, _, _)
SumPoints(logs, a, wk) ==
  IF logs = <<>> THEN 0
  ELSE LET l == Head(logs)
       IN  (IF IsSome(l.dec) /\ l.user = a /\ Val(l.dec).week = wk
            THEN Val(l.dec).points ELSE 0)
           + SumPoints(Tail(logs), a, wk)

\* C1: when fetchLogsRange left its loop at the deadline, the state the
\* handler persists has a lastProcessedBlock no greater than the last block
\* that was fetched (cursor - 1), so the blocks not fetched are scanned later.
\* (A persisted null lastProcessedBlock makes the next update a backfill and
\* is not counted against the claim.)
C1_DeadlineKeepsProgressHonest ==
  \A h \in Handlers :
    (Persisting(h) /\ cut[h]) =>
       LET s == serializeState(Val(upd[h]))
       IN  IsSome(s.lastProcessedBlock) =>
             FromDec(Val(s.lastProcessedBlock)) <= cursor[h] - 1

\* C3: every state under the state key counts each log record at most once:
\* for each stored period and address the total is at most the sum of the
\* points of the matching records in blocks up to that state's
\* lastProcessedBlock.
C3_CountedAtMostOnce ==
  IsSome(kvState) =>
    LET s == Val(kvState)
    IN  \A i \in 1..Len(s.weeks) :
          \A j \in 1..Len(s.weeks[i].entries) :
            LET e == s.weeks[i].entries[j]
            IN  FromDec(e.points) <=
                  SumPoints(GetLogs(0, StoredLpb(kvState)), e.address, s.weeks[i].weekMs)

\* Two overlapping invocations have both run a warm scan from the same
\* loaded state and both have written their state, which holds the record
\* of block 2.
C3_Witness ==
  \E h \in Handlers, g \in Handlers :
    /\ h # g
    /\ mode[h] = "warm" /\ mode[g] = "warm"
    /\ "wstate" \in eff[h] /\ "wstate" \in eff[g]
    /\ IsSome(kvState)
    /\ \E i \in 1..Len(Val(kvState).weeks) :
         \E j \in 1..Len(Val(kvState).weeks[i].entries) :
           /\ Val(kvState).weeks[i].weekMs = 2
           /\ Val(kvState).weeks[i].entries[j] = [address |-> "a2", points |-> ToDec(1)]

\* C4: the lastProcessedBlock stored under the state key never decreases
\* from one write to the next (compared whenever both values are blocks).
C4_StoredBlockNeverDecreases ==
  [][ (IsSome(kvState) /\ IsSome(kvState')
       /\ IsSome(Val(kvState).lastProcessedBlock)
       /\ IsSome(Val(kvState').lastProcessedBlock))
      => StoredLpb(kvState') >= StoredLpb(kvState) ]_hvars

\* A warm update of invocation h requests a block range in this step.
WarmScanStep(h) == pc[h] = "update" /\ pc'[h] # "update" /\ mode'[h] = "warm"

\* C5, as stated: in a sequential run within one period every warm scan
\* requests lastProcessedBlock+1 .. latest of the state it loaded, and the
\* ranges requested by successive warm scans are pairwise disjoint.
C5_RequestedRangesDisjoint ==
  [][ \A h \in Handlers :
        WarmScanStep(h) =>
          /\ scanFrom'[h] = Val(Val(st[h]).lastProcessedBlock) + 1
          /\ \A r \in warmDone : r.to < scanFrom'[h] ]_hvars

\* C5, amended: in a sequential run within one period every warm scan
\* requests exactly lastProcessedBlock+1 .. latest of the state it loaded,
\* which is the persisted state; its range is disjoint from the range of
\* every earlier warm scan whose state was persisted, so no range is applied
\* to the persisted state twice.
C5_PersistedRangesDisjoint ==
  [][ \A h \in Handlers :
        WarmScanStep(h) =>
          /\ st[h] = deserializeState(kvState)
          /\ scanFrom'[h] = Val(Val(st[h]).lastProcessedBlock) + 1
          /\ latest'[h] >= scanFrom'[h]
          /\ [from |-> scanFrom'[h], to |-> latest'[h], kept |-> ~storeConfigured]
               \in warmDone'
          /\ \A r \in warmDone : r.kept => r.to < scanFrom'[h] ]_hvars

\* Two warm scans of the same period have been persisted one after the other.
C5_Witness ==
  \E h \in Handlers :
    /\ mode[h] = "warm"
    /\ pc[h] = "release"
    /\ Cardinality({ r \in warmDone : r.kept }) >= 2

\* C6: when the update fails on the RPC side, the handler answers with the
\* explicit failure only if no cached snapshot exists.
C6_FailureOnlyWithoutSnapshot ==
  \A h \in Handlers :
    (pc[h] = "done" /\ Val(resp[h]).kind = "error" /\ "rpc" \in eff[h])
      => ~IsSome(kvResp)

\* C7: a caller without refresh=1 that did not get the lock goes to the busy
\* path, and when a cached snapshot exists there it answers with that
\* snapshot marked busy, having run no RPC call or scan, written neither key
\* and left the lock key alone.
C7_BusyServesSnapshotOnly ==
  [][ \A h \in Handlers :
        /\ (pc[h] = "lock" /\ pc'[h] # "lock" /\ ~refresh[h] /\ ~gotLock'[h])
             => pc'[h] = "busy"
        /\ (pc[h] = "busy" /\ pc'[h] \notin {"busy", "catch"} /\ IsSome(kvResp'))
             => /\ pc'[h] = "done"
                /\ resp'[h] = Some([kind |-> "busy", body |-> WithBusy(Val(kvResp))])
                /\ Val(resp'[h]).body.meta.busy
                /\ kvState' = kvState /\ kvResp' = kvResp
                /\ kvLock' = kvLock /\ lockOwner' = lockOwner
                /\ eff'[h] \subseteq {"lock"} ]_hvars

\* An invocation has answered from the busy path.
C7_Witness ==
  \E h \in Handlers :
    /\ pc[h] = "done" /\ Val(resp[h]).kind = "busy"
    /\ ~refresh[h] /\ ~gotLock[h]

\* C8: with a shared store, while one caller holds the lock no other caller
\* without refresh=1 (and without the lock) is inside incrementalUpdate.
C8_NoLocklessUpdate ==
  \A h \in Handlers, g \in Handlers :
    (/\ h # g
     /\ storeConfigured
     /\ kvLock /\ lockOwner = Some(h) /\ gotLock[h]
     /\ pc[h] \in {"load", "update", "write_state", "write_resp", "release"})
      => ~(pc[g] = "update" /\ ~refresh[g] /\ ~gotLock[g])

\* C9: a request without refresh=1 that finds a live snapshot answers with
\* exactly that snapshot; it has not tried the lock, made no RPC call and
\* written neither the state key nor the response key.
C9_CacheHitChangesNothing ==
  [][ \A h \in Handlers :
        (pc[h] = "idle" /\ pc'[h] \notin {"idle", "catch"} /\ ~refresh'[h]
         /\ IsSome(kvResp'))
          => /\ pc'[h] = "done"
             /\ resp'[h] = Some([kind |-> "cached", body |-> Val(kvResp)])
             /\ kvState' = kvState /\ kvResp' = kvResp
             /\ kvLock' = kvLock /\ lockOwner' = lockOwner
             /\ eff'[h] = {} ]_hvars

\* An invocation has answered from the fast path.
C9_Witness ==
  \E h \in Handlers :
    /\ pc[h] = "done" /\ Val(resp[h]).kind = "cached"
    /\ ~refresh[h] /\ eff[h] = {}

\* C10: a request with refresh=1 never answers with the cached snapshot:
\* with or without the lock it goes on to load and update, and when it
\* succeeds it has written the state and the snapshot computed from its own
\* update, which is also what it sends.
C10_ForcedRefreshAlwaysUpdates ==
  /\ [](\A h \in Handlers :
          refresh[h] =>
            /\ pc[h] # "busy"
            /\ pc[h] = "done" => Val(resp[h]).kind \in {"fresh", "error"}
            /\ (pc[h] = "done" /\ Val(resp[h]).kind = "fresh")
                 => {"rpc", "wstate", "wresp"} \subseteq eff[h])
  /\ [][ \A h \in Handlers :
           refresh[h] =>
             /\ (pc[h] = "lock" /\ pc'[h] # "lock") => pc'[h] = "load"
             /\ (pc[h] = "update" /\ pc'[h] = "write_resp")
                  => kvState' = Some(serializeState(Val(upd'[h])))
             /\ (pc[h] = "write_state" /\ pc'[h] = "write_resp")
                  => kvState' = Some(serializeState(Val(upd[h])))
             /\ (pc[h] = "write_resp" /\ pc'[h] = "release")
                  => kvResp' = Some(formatResponsePayload(Val(upd[h])))
             /\ (pc[h] = "release" /\ pc'[h] = "done")
                  => Val(resp'[h]).body = formatResponsePayload(Val(upd[h])) ]_hvars

\* A forced refresh that did not get the lock has updated and answered.
C10_Witness ==
  \E h \in Handlers :
    /\ refresh[h] /\ ~gotLock[h]
    /\ pc[h] = "done" /\ Val(resp[h]).kind = "fresh"

\* An update of invocation h returns in this step.
UpdateStep(h) == pc[h] = "update" /\ pc'[h] \notin {"update", "catch"}

\* Every total of state new is the total of state old (0 without old) plus
\* the points of the given logs for that address and period.
TotalsAre(new, oldWeeks, logs) ==
  \A i \in 1..Len(new.weeks) :
    \A j \in 1..Len(new.weeks[i].map) :
      LET e  == new.weeks[i].map[j]
          wk == new.weeks[i].weekMs
      IN  e.points = MapGet(FindWeekMap(oldWeeks, wk), e.address)
                       + SumPoints(logs, e.address, wk)

\* C11: incrementalUpdate backfills (a fresh state for the current and the
\* previous week, nothing of the loaded totals carried over) exactly when
\* there is no loaded state, or it has no lastProcessedBlock, or its
\* currentWeekMs is not the wall clock's week; otherwise it keeps the loaded
\* totals and scans from lastProcessedBlock + 1 only.
C11_ModeChoice ==
  [][ \A h \in Handlers :
        UpdateStep(h) =>
          LET cold == \/ ~IsSome(st[h])
                      \/ ~IsSome(Val(st[h]).lastProcessedBlock)
                      \/ Val(st[h]).currentWeekMs # curWk[h]
              new  == Val(upd'[h])
              got  == GetLogs(scanFrom'[h], cursor'[h] - 1)
          IN  IF cold
              THEN /\ mode'[h] = "backfill"
                   /\ new.currentWeekMs = curWk[h]
                   /\ [i \in 1..Len(new.weeks) |-> new.weeks[i].weekMs]
                        = << curWk[h], curWk[h] - WEEK_MS >>
                   /\ TotalsAre(new, <<>>, got)
              ELSE /\ mode'[h] \in {"warm", "noop"}
                   /\ scanFrom'[h] = Val(Val(st[h]).lastProcessedBlock) + 1
                   /\ TotalsAre(new, Val(st[h]).weeks, got) ]_hvars

\* After a rollover an update that had loaded last week's state, with
\* totals in it, has backfilled.
C11_Witness ==
  \E h \in Handlers :
    /\ mode[h] = "backfill" /\ pc[h] = "write_state"
    /\ IsSome(kvState)
    /\ Val(kvState).currentWeekMs # Val(upd[h]).currentWeekMs
    /\ IsSome(Val(kvState).lastProcessedBlock)
    /\ calls = 1

\* C12: in the warm path, when lastProcessedBlock + 1 > latest the update
\* requests no logs and returns the loaded state with every total and
\* lastProcessedBlock as they were.
C12_EmptyRangeIsNoOp ==
  [][ \A h \in Handlers :
        (/\ UpdateStep(h)
         /\ IsSome(st[h])
         /\ IsSome(Val(st[h]).lastProcessedBlock)
         /\ Val(st[h]).currentWeekMs = curWk[h]
         /\ Val(Val(st[h]).lastProcessedBlock) + 1 > latest'[h])
        => /\ mode'[h] = "noop"
           /\ cursor'[h] = scanFrom'[h] /\ ~cut'[h]
           /\ "scan" \notin eff'[h]
           /\ Val(upd'[h]).weeks = Val(st[h]).weeks
           /\ Val(upd'[h]).lastProcessedBlock = Val(st[h]).lastProcessedBlock
           /\ Val(upd'[h]).currentWeekMs = Val(st[h]).currentWeekMs ]_hvars

\* An update found the endpoint's latest block behind its lastProcessedBlock
\* and returned without scanning.
C12_Witness ==
  \E h \in Handlers :
    /\ mode[h] = "noop" /\ pc[h] = "write_state"
    /\ latest[h] < Val(Val(upd[h]).lastProcessedBlock)
    /\ Val(upd[h]).weeks # <<>>

\* The period maps of a state (in memory: map; stored: entries) are for its
\* currentWeekMs and lastWeekMs only, one map each at most, and lastWeekMs
\* is the week before currentWeekMs.
OnlyTrackedWeeks(s) ==
  /\ s.lastWeekMs = s.currentWeekMs - WEEK_MS
  /\ Len(s.weeks) <= 2
  /\ \A i \in 1..Len(s.weeks) :
       /\ s.weeks[i].weekMs \in {s.currentWeekMs, s.lastWeekMs}
       /\ \A j \in 1..Len(s.weeks) : s.weeks[j].weekMs = s.weeks[i].weekMs => j = i

\* C13: every state an update returns, and every state persisted, holds
\* period maps for currentWeekMs and lastWeekMs = currentWeekMs - 7 days
\* only, two at most.
C13_OnlyTrackedWeeks ==
  /\ IsSome(kvState) => OnlyTrackedWeeks(Val(kvState))
  /\ \A h \in Handlers : IsSome(upd[h]) => OnlyTrackedWeeks(Val(upd[h]))

\* After a rollover a warm update has folded a record and persisted its
\* state.
C13_Witness ==
  \E h \in Handlers :
    /\ mode[h] = "warm" /\ "wstate" \in eff[h]
    /\ Val(kvState).currentWeekMs = FirstWeek + 1
    /\ \E i \in 1..Len(Val(kvState).weeks) : Val(kvState).weeks[i].entries # <<>>

\* The total stored for address a in period wk of a stored state (0 when
\* the period or the address is not in it).
StoredTotal(s, wk, a) ==
  IF \E i \in 1..Len(s.weeks) :
       s.weeks[i].weekMs = wk /\ \E j \in 1..Len(s.weeks[i].entries) :
                                    s.weeks[i].entries[j].address = a
  THEN LET i == CHOOSE i \in 1..Len(s.weeks) :
                  s.weeks[i].weekMs = wk /\ \E j \in 1..Len(s.weeks[i].entries) :
                                               s.weeks[i].entries[j].address = a
           j == CHOOSE j \in 1..Len(s.weeks[i].entries) :
                  s.weeks[i].entries[j].address = a
       IN  FromDec(s.weeks[i].entries[j].points)
  ELSE 0

\* C14: from one persisted state to the next, the total stored for an
\* address in a period that stays tracked never decreases.  (Compared here
\* between states of the same week, while no scan has been cut short by the
\* deadline.)
C14_StoredTotalsNeverDecrease ==
  [][ (/\ IsSome(kvState) /\ IsSome(kvState')
       /\ Val(kvState).currentWeekMs = Val(kvState').currentWeekMs
       /\ \A h \in Handlers : ~cut[h] /\ ~cut'[h]) =>
        LET old == Val(kvState)
            new == Val(kvState')
        IN  \A i \in 1..Len(old.weeks) :
              old.weeks[i].weekMs \in {new.currentWeekMs, new.lastWeekMs} =>
                \A j \in 1..Len(old.weeks[i].entries) :
                  StoredTotal(new, old.weeks[i].weekMs, old.weeks[i].entries[j].address)
                    >= FromDec(old.weeks[i].entries[j].points) ]_hvars

\* =========================================================================
\* Properties of the aggregation
\* =========================================================================
FoldUsers == {"a1", "a2", "a3"}

\* C15: folding is additive.  While an update folds records, the total held
\* for each address in the current and in the previous week is the total it
\* had when the update started (0 if absent) plus the points of the records
\* folded for that address and week.
C15_FoldIsAdditive ==
  \A wk \in {week, week - WEEK_MS} : \A a \in FoldUsers :
    MapGet(FindWeekMap(foldWeeks, wk), a)
      = MapGet(FindWeekMap(foldBase, wk), a) + SumPoints(foldLogs, a, wk)

\* 500 then 300 for the same address in the same period gives 800, on top
\* of a total that an earlier update left.
C15_Witness ==
  /\ Len(foldLogs) = 2
  /\ \A i \in 1..2 : foldLogs[i].user = "a1" /\ IsSome(foldLogs[i].dec)
                        /\ Val(foldLogs[i].dec).week = week
  /\ Val(foldLogs[1].dec).points = 500 /\ Val(foldLogs[2].dec).points = 300
  /\ MapGet(FindWeekMap(foldBase, week), "a1") = 300
  /\ MapGet(FindWeekMap(foldWeeks, week), "a1") = 1100

\* The record folded last decoded to a week that is neither the current
\* nor the previous one.
LastUntracked(logs) ==
  /\ logs # <<>>
  /\ IsSome(logs[Len(logs)].dec)
  /\ Val(logs[Len(logs)].dec).week \notin {week, week - WEEK_MS}

\* C16: folding a record whose decoded week is neither the current nor the
\* previous week completes and leaves the aggregation state as it was: no
\* period map and no address entry is created or modified.
C16_UntrackedWeekIgnored ==
  [][ (folds' = folds + 1 /\ LastUntracked(foldLogs')) =>
        foldWeeks' = foldWeeks ]_hvars

\* Such a record has been folded into a state that holds totals.
C16_Witness ==
  /\ Len(foldLogs) = 2
  /\ ~LastUntracked(SubSeq(foldLogs, 1, 1))
  /\ LastUntracked(foldLogs)
  /\ MapGet(FindWeekMap(foldWeeks, week), "a1") = 500
  /\ ~HasWeek(foldWeeks, week + WEEK_MS)

\* array.slice(0, n)
Take(arr, n) == SubSeq(arr, 1, Min(n, Len(arr)))

\* C17: for a period map M, a keep count K and a visible count N, the first
\* min(K, N) entries of sortMapToArray(pruneToTop(M, K)) are the first
\* min(K, N) entries of sortMapToArray(M): same addresses, points and order.
C17_PruneKeepsVisibleTop ==
  IsSome(ranked) =>
    \A n \in 0..(MaxKeep + 1) :
      Take(Val(ranked).prunedSorted, Min(Val(ranked).keep, n))
        = Take(Val(ranked).sorted, Min(Val(ranked).keep, n))

\* A map of three totals, two of them equal and inserted after the smaller
\* one, has been pruned to two.
C17_Witness ==
  /\ IsSome(ranked)
  /\ Val(ranked).keep = 2
  /\ Len(Val(ranked).map) = 3
  /\ Val(ranked).map[1].points < Val(ranked).map[2].points
  /\ Val(ranked).map[2].points = Val(ranked).map[3].points
  /\ Len(Val(ranked).prunedSorted) = 2

\* formatResponsePayload's ranking of one period: the top MAX_TOP.
VisibleTop(weeks, wk) == Take(sortMapToArray(FindWeekMap(weeks, wk)), MAX_TOP)

\* C18: with PRUNE_KEEP >= MAX_TOP, after any sequence of warm updates the
\* visible ranking of each tracked period is the top MAX_TOP of the totals
\* obtained by folding the same records without ever pruning.
C18_PruningNeverShowsInRanking ==
  (PRUNE_KEEP >= MAX_TOP /\ foldLogs = <<>>) =>
    \A wk \in {week, week - WEEK_MS} :
      VisibleTop(foldWeeks, wk) = VisibleTop(rawWeeks, wk)

\* The position of address a in map m (insertion order).
IndexOf(m, a) == CHOOSE i \in 1..Len(m) : m[i].address = a

\* C19: sortMapToArray returns every entry of the map exactly once, with its
\* points, ordered by points descending, entries of equal points in the
\* map's insertion order.  (One sequence only meets this, so sorting the
\* same map again returns the same sequence.)
C19_SortIsStableRanking ==
  IsSome(ranked) =>
    LET m   == Val(ranked).map
        arr == Val(ranked).sorted
    IN  /\ Len(arr) = Len(m)
        /\ \A i \in 1..Len(m) :
              \E j \in 1..Len(arr) :
                /\ arr[j] = [address |-> m[i].address, points |-> ToDec(m[i].points)]
                /\ \A k \in 1..Len(arr) : arr[k].address = m[i].address => k = j
        /\ \A j \in 1..Len(arr) : \A k \in (j + 1)..Len(arr) :
              /\ FromDec(arr[j].points) >= FromDec(arr[k].points)
              /\ FromDec(arr[j].points) = FromDec(arr[k].points)
                    => IndexOf(m, arr[j].address) < IndexOf(m, arr[k].address)

\* A map whose first two totals are equal and whose third is larger has
\* been ranked.
C19_Witness ==
  /\ IsSome(ranked)
  /\ Len(Val(ranked).map) = 3
  /\ Val(ranked).map[1].points = Val(ranked).map[2].points
  /\ Val(ranked).map[3].points > Val(ranked).map[1].points
  /\ Val(ranked).sorted[1].address = Val(ranked).map[3].address

\* =========================================================================
\* Properties of the scanners: request sizes
\* =========================================================================
CeilDiv(n, d) == (n + d - 1) \div d

\* C20: when no eth_getLogs call is rejected, getLogsChunked serves a request
\* of N blocks with exactly ceil(N / MAX_BLOCK_SPAN) eth_getLogs calls, each
\* covering at most MAX_BLOCK_SPAN blocks.
C20_ChunkCountAndWidth ==
  (scanner = "chunked" /\ scanStatus = "returned" /\ Len(fetched) = Len(ranges)) =>
    /\ Len(fetched) = CeilDiv(reqTo - reqFrom + 1, MAX_BLOCK_SPAN)
    /\ \A i \in 1..Len(fetched) :
          fetched[i].t - fetched[i].f + 1 <= MAX_BLOCK_SPAN

\* The number of blocks of a range.
Blocks(r) == r.t - r.f + 1

\* C21: when a getLogsChunked worker bisects its rejected range [f, t],
\* f < t, exactly the two ranges [f, mid] and [mid + 1, t] with
\* mid = f + (t - f) \div 2 are appended to ranges: both hold a block, their
\* block counts differ by at most one, they do not overlap and together
\* they are [f, t].
C21_BisectionHalves ==
  [][ (scanner = "chunked" /\ scanStatus = "running" /\ ranges' # ranges) =>
        \E w \in Workers :
          /\ wpc[w] = "fetch" /\ wcur'[w] # wcur[w]
          /\ LET r   == Val(wcur[w])
                 n   == Len(ranges)
                 mid == r.f + ((r.t - r.f) \div 2)
             IN  /\ r.f < r.t
                 /\ Len(ranges') = n + 2
                 /\ SubSeq(ranges', 1, n) = ranges
                 /\ ranges'[n + 1] = [f |-> r.f, t |-> mid]
                 /\ ranges'[n + 2] = [f |-> mid + 1, t |-> r.t]
                 /\ Blocks(ranges'[n + 1]) >= 1 /\ Blocks(ranges'[n + 2]) >= 1
                 /\ Blocks(ranges'[n + 1]) - Blocks(ranges'[n + 2]) \in {-1, 0, 1}
                 /\ Blocks(ranges'[n + 1]) + Blocks(ranges'[n + 2]) = Blocks(r)
                 /\ ranges'[n + 1].t + 1 = ranges'[n + 2].f ]_hvars

\* A range of three blocks was bisected, and then its two-block half.
C21_Witness ==
  /\ scanner = "chunked"
  /\ Len(ranges) >= 5
  /\ \E i \in 1..Len(ranges) :
        /\ Blocks(ranges[i]) = 3
        /\ \E j \in (i + 1)..(Len(ranges) - 1) :
              /\ ranges[j] = [f |-> ranges[i].f, t |-> ranges[i].f + 1]
              /\ ranges[j + 1] = [f |-> ranges[i].t, t |-> ranges[i].t]
              /\ \E k \in (j + 2)..(Len(ranges) - 1) :
                    /\ ranges[k] = [f |-> ranges[j].f, t |-> ranges[j].f]
                    /\ ranges[k + 1] = [f |-> ranges[j].t, t |-> ranges[j].t]

\* C22: in getLogsChunked, when the eth_getLogs call of a one-block range
\* does not succeed, the range is neither pushed to ranges again nor passed
\* over: the scan throws, and a scan that threw never returns a list.
C22_SingleBlockRejectionIsFatal ==
  [][ /\ (scanner = "chunked" /\ scanStatus = "running" /\ fetched' = fetched
           /\ \E w \in Workers : /\ wpc[w] = "fetch"
                                  /\ Blocks(Val(wcur[w])) = 1
                                  /\ wcur'[w] # wcur[w])
            => (scanStatus' = "threw" /\ ranges' = ranges)
      /\ (scanStatus = "threw") => (scanStatus' = "threw") ]_hvars

\* The scan threw on a one-block half of a bisected range after other
\* ranges had been fetched.
C22_Witness ==
  /\ scanner = "chunked" /\ scanStatus = "threw"
  /\ fetched # <<>>
  /\ \E i \in 1..Len(ranges) :
        /\ i <= idx
        /\ i > 2
        /\ Blocks(ranges[i]) = 1
        /\ \A k \in 1..Len(fetched) : fetched[k] # ranges[i]
        /\ \A j \in 1..Len(ranges) : j <= idx /\ j # i =>
              \E k \in 1..Len(fetched) : fetched[k] = ranges[j]
                 \/ Blocks(ranges[j]) > 1

\* =========================================================================
\* Properties of fetchLogsRange and withRpcRotation
\* =========================================================================
\* C23: when a withRpcRotation call of the scan has used up its tries and
\* thrown (on anything but a block-range rejection, which asks for a smaller
\* range), fetchLogsRange has thrown too: it neither goes on scanning nor
\* returns the records gathered so far.
C23_ExhaustedRotationIsFatal ==
  (/\ IsSome(rotEnded)
   /\ Val(rotEnded).result = "threw"
   /\ Val(rotEnded).err # Some("range")) => fetchStatus = "threw"

\* C24: a withRpcRotation call invokes fn at most tries times; when an
\* invocation succeeds the call returns with it and fn is not invoked again
\* for that call; a call throws only after tries failed invocations, and it
\* throws an error.
C24_AtMostTriesInvocations ==
  /\ rotTries <= tries
  /\ IsSome(rotEnded) =>
        /\ Val(rotEnded).n \in 1..tries
        /\ Val(rotEnded).result = "threw" =>
              (Val(rotEnded).n = tries /\ IsSome(Val(rotEnded).err))
  /\ (fetchStatus = "running" /\ rotTries > 1) => IsSome(rotLastErr)

\* One call threw after its last try, and a later call returned on its
\* third invocation.
C24_Witness ==
  /\ exhausted
  /\ IsSome(rotEnded)
  /\ Val(rotEnded).result = "ok"
  /\ Val(rotEnded).n = 3

\* C25: a withRpcRotation call whose invocation of fn failed with an error
\* that is neither rate-limit-like, nor a server error, nor a network or
\* timeout failure, nor a block-range rejection does not invoke fn again:
\* no invocation is awaited while lastErr is such an error.
C25_ClientErrorNotRetried ==
  ~(fetchStatus = "running" /\ rotLastErr = Some("client"))

\* =========================================================================
\* Properties of the rotator
\* =========================================================================
\* C26: within one withRpcRotation call, each retry goes to the endpoint
\* that follows, cyclically, the one the failed attempt used, whatever the
\* other workers do with the same rotator; with two endpoints or more it
\* never goes to the endpoint that has just failed.
C26_RetriesRoundRobin ==
  \A w \in Workers :
    (IsSome(rrUrl[w]) /\ IsSome(rrPrev[w])) =>
      /\ Val(rrUrl[w]) = (Val(rrPrev[w]) + 1) % rrPool
      /\ rrPool >= 2 => Val(rrUrl[w]) # Val(rrPrev[w])

\* =========================================================================
\* Properties of the scanners: the worker pool
\* =========================================================================
\* The workers whose eth_getLogs call is pending.
InFlight == { w \in Workers : wpc[w] = "fetch" }

\* C27: during a getLogsChunked scan at most LOGS_CONCURRENCY eth_getLogs
\* calls are pending, and every entry of ranges, those pushed by a bisection
\* included, is taken by exactly one worker: no two workers hold the same
\* entry, no entry is fetched twice, and when the scan returns every entry
\* has been taken (it was fetched, or it was rejected and its two halves
\* were pushed).
C27_BoundedPoolTakesEachEntryOnce ==
  scanner = "chunked" =>
    /\ Cardinality(InFlight) <= logsConcurrency
    /\ \A w1 \in InFlight, w2 \in InFlight : w1 # w2 => wcur[w1] # wcur[w2]
    /\ \A w \in InFlight : \A k \in 1..Len(fetched) : fetched[k] # Val(wcur[w])
    /\ \A j \in 1..Len(fetched), k \in 1..Len(fetched) :
          fetched[j] = fetched[k] => j = k
    /\ scanStatus = "returned" =>
          \A i \in 1..Len(ranges) :
            \/ \E k \in 1..Len(fetched) : fetched[k] = ranges[i]
            \/ /\ Blocks(ranges[i]) > 1
               /\ \A n \in 1..2 : \E j \in 1..Len(ranges) : ranges[j] = Halves(ranges[i])[n]

\* =========================================================================
\* Properties of computeWeeklySeason's aggregation
\* =========================================================================
\* C28: for a fixed set of log records, computeWeeklySeason's totals per
\* period and address are the same whatever the order in which the scan
\* workers pushed the records.
C28_SeasonTotalsOrderIndependent ==
  IsSome(season) =>
    \A a \in FoldUsers :
      /\ MapGet(Val(season).asPushed.weeklyMap, a)
            = MapGet(Val(season).inOrder.weeklyMap, a)
      /\ MapGet(Val(season).asPushed.prevWeekMap, a)
            = MapGet(Val(season).inOrder.prevWeekMap, a)
      /\ MapHas(Val(season).asPushed.weeklyMap, a)
            <=> MapHas(Val(season).inOrder.weeklyMap, a)
      /\ MapHas(Val(season).asPushed.prevWeekMap, a)
            <=> MapHas(Val(season).inOrder.prevWeekMap, a)

\* Two records of one address and one of another were pushed in another
\* order, which changes the order of the map's entries but not its totals.
C28_Witness ==
  /\ IsSome(season)
  /\ Len(Val(season).logs) = 3
  /\ Val(season).pushed # Val(season).logs
  /\ Val(season).asPushed.weeklyMap # Val(season).inOrder.weeklyMap
  /\ MapGet(Val(season).asPushed.weeklyMap, "a1") = 800
  /\ MapGet(Val(season).inOrder.weeklyMap, "a1") = 800
  /\ MapHas(Val(season).inOrder.weeklyMap, "a2")

\* =========================================================================
\* Properties of the decoders
\* =========================================================================
\* C29: for every string of hex digits, of any length, with or without the
\* 0x prefix, decodePointsAndWeek(extractBytesParamFromLogData(data)) of
\* leaderboard.js is null or a pair {points, week} with points >= 0; it
\* never throws.
C29_DecodeNeverThrows ==
  IsSome(decoded) =>
    \/ Val(decoded) = Null
    \/ /\ Val(decoded).kind = "value"
       /\ Val(decoded).points >= 0

\* A well-formed log was decoded.
C29_Witness ==
  /\ Len(data) = 4 * WORD_HEX
  /\ IsSome(decoded)
  /\ Val(decoded) = [kind |-> "value", points |-> 18, week |-> 2]

\* The data is [offset = one word][length][bytes ...].
IsLayoutA(d) ==
  /\ Len(d) >= 2 * WORD_HEX
  /\ HexVal(Slice(d, 0, WORD_HEX)) = WORD_HEX \div 2

\* The data is [timestamp][offset = two words][length][bytes ...], the
\* timestamp not being the offset of layout A.
IsLayoutB(d) ==
  /\ Len(d) >= 3 * WORD_HEX
  /\ HexVal(Slice(d, 0, WORD_HEX)) # WORD_HEX \div 2
  /\ HexVal(Slice(d, WORD_HEX, 2 * WORD_HEX)) = WORD_HEX

\* res is what the extractor owes for a length word at digit lenPos: the
\* bytes behind the length word, or null when they would end past the data.
Extracts(res, d, lenPos) ==
  LET len   == HexVal(Slice(d, lenPos, lenPos + WORD_HEX))
      start == lenPos + WORD_HEX
  IN  IF start + 2 * len > Len(d) THEN res = Null
      ELSE /\ res.kind = "value"
           /\ res.digits = Slice(d, start, start + 2 * len)

\* part_000's extractor returns the payload of both layouts, and null when
\* the length word points past the end of the data.
Part000AcceptsBothLayouts ==
  IsSome(extracted) =>
    /\ IsLayoutA(data) => Extracts(Val(extracted), data, WORD_HEX)
    /\ IsLayoutB(data) => Extracts(Val(extracted), data, 2 * WORD_HEX)

\* part_000's extractor returned a two-word payload behind a timestamp.
Part000Witness ==
  /\ IsSome(extracted)
  /\ IsLayoutB(data)
  /\ Val(extracted).kind = "value"
  /\ Len(Val(extracted).digits) = 2 * WORD_HEX

\* C30: extractBytesParamFromLogData accepts both layouts of the data: it
\* returns the payload P of [offset = 32][length][P] and of
\* [timestamp][offset = 64][length][P] with a timestamp other than 32, and
\* null whenever the length word points past the end of the data; here for
\* the extractor of leaderboard.js.
C30_ExtractAcceptsBothLayouts ==
  IsSome(payload) =>
    /\ IsLayoutA(data) => Extracts(Val(payload), data, WORD_HEX)
    /\ IsLayoutB(data) => Extracts(Val(payload), data, 2 * WORD_HEX)

\* The meta object of a response built from a complete scan up to block lat.
CompleteMeta(lat) == formatResponsePayload(Advance(FreshState(FirstWeek), lat)).meta

\* C31: a response built from a scan that the deadline cut short differs,
\* in its meta object, from the response of a complete scan up to the same
\* latest block, and its ranking is never stored as the cached snapshot.
C31_PartialScanIsMarkedAndNotCached ==
  [][\A h \in Handlers :
       /\ (pc[h] = "update" /\ IsSome(upd'[h]) /\ cut'[h]) =>
            formatResponsePayload(Val(upd'[h])).meta # CompleteMeta(latest'[h])
       /\ (pc[h] = "write_resp" /\ pc'[h] = "release" /\ cut[h]) =>
            kvResp' = kvResp]_hvars

\* =========================================================================
\* Termination of the scanner
\* =========================================================================
\* C32: every getLogsChunked scan terminates when each RPC call does: the
\* queue never holds more than 2 * blocks - 1 ranges (the nodes of the
\* bisection trees over the requested blocks), no entry is fetched more
\* often than it was queued, and a running scan returns or throws.
C32_ChunkedScanTerminates ==
  /\ [](scanner = "chunked" =>
          /\ Len(ranges) <= 2 * (reqTo - reqFrom + 1) - 1
          /\ Len(fetched) <= Len(ranges)
          /\ idx <= Len(ranges) + logsConcurrency)
  /\ ((scanner = "chunked" /\ scanStatus = "running")
        ~> (scanStatus \in {"returned", "threw"}))

\* A scan whose ranges were bisected down to single blocks has returned.
C32_Witness ==
  /\ scanner = "chunked"
  /\ scanStatus = "returned"
  /\ Len(ranges) > Len(BuildRanges(reqFrom, reqTo)) + 2

\* =========================================================================
\* The lock, the store and the snapshot
\* =========================================================================
\* C33: the lock key is deleted only by an invocation whose
\* storeAcquireLock returned true: one that was refused the lock never
\* deletes the key, on the success path or in the catch block.
C33_OnlyLockHolderDeletes ==
  [][\A h \in Handlers :
       (/\ pc[h] \in {"release", "catch"}
        /\ pc'[h] = "done"
        /\ kvLock /\ ~kvLock') => ~("lock" \in eff[h] /\ ~gotLock[h])]_hvars

\* The store writes an invocation has made.
Writes(h) == eff[h] \cap {"wstate", "wresp"}

\* C34: when incrementalUpdate raises, the invocation has written nothing
\* and writes nothing on its way out: the value under the state key and the
\* cached response are not touched by the failing update or by the catch
\* block that follows it.
C34_FailedUpdateWritesNothing ==
  [][\A h \in Handlers :
       /\ (pc[h] = "update" /\ pc'[h] = "catch") =>
            /\ kvState' = kvState /\ kvResp' = kvResp
            /\ Writes(h) = {}
            /\ eff'[h] \cap {"wstate", "wresp"} = {}
       /\ (pc[h] = "catch" /\ pc'[h] = "done") =>
            /\ kvState' = kvState /\ kvResp' = kvResp
            /\ eff'[h] \cap {"wstate", "wresp"} = Writes(h)]_hvars

\* An update over a stored state has failed (without a store nothing else
\* leads to the catch block) and the error was sent.
C34_Witness ==
  \E h \in Handlers :
    /\ ~storeConfigured
    /\ IsSome(kvState) /\ IsSome(kvResp)
    /\ pc[h] = "done" /\ Val(resp[h]).kind = "error"
    /\ "rpc" \in eff[h] /\ Writes(h) = {}

\* C35: when the last write to the shared store of two overlapping
\* invocations has been made and both go on to answer successfully, the cached response and the
\* persisted state describe the same update: the snapshot's
\* meta.lastProcessedBlock is the persisted state's lastProcessedBlock.
C35_SnapshotMatchesState ==
  [][\A h \in Handlers, g \in Handlers :
       (/\ h # g
        /\ storeConfigured
        /\ pc[h] = "write_resp" /\ pc'[h] = "release"
        /\ pc[g] = "release")
         => Val(kvResp').meta.lastProcessedBlock = Val(kvState').lastProcessedBlock]_hvars

\* =========================================================================
\* Properties of the memCache handler
\* =========================================================================
\* C36: every response with data that is served for a request with cache
\* key K, from the warm cache or from a shared promise, holds the data
\* computed for week K.
C36_ServedDataIsOfRequestedWeek ==
  \A r \in Reqs :
    (reqs[r].pc = "done" /\ Val(reqs[r].out).kind = "data")
      => Val(reqs[r].out).weekStart = reqs[r].week

\* C37: at most one computeWeeklySeason computation is in flight per cache
\* key, and a request that arrives while a computation for its key is in
\* flight waits for that computation: it starts none of its own.
C37_OneComputationPerKey ==
  \A p \in Reqs, q \in Reqs :
    (prom[p] = "pending" /\ prom[q] = "pending" /\ reqs[p].week = reqs[q].week)
      => p = q

\* =========================================================================
\* The week of a response, and the stored form of the state
\* =========================================================================
\* C38: every successful response, fresh or from the cached snapshot, has
\* weekStart equal to the start of the wall-clock week at the time it is
\* sent, and prevWeekStart = weekStart - 7 days.
C38_ResponseIsOfCurrentWeek ==
  \A h \in Handlers :
    (pc[h] = "done" /\ Val(resp[h]).body.ok)
      => /\ Val(resp[h]).body.weekStart = week
         /\ Val(resp[h]).body.prevWeekStart = Val(resp[h]).body.weekStart - WEEK_MS

====
